---- MODULE Spec2Model ----
(***************************************************************************)
(* The libretro frameserver (src/doc/set_led_rgb.lua holds its C source):  *)
(* the producer main loop arcan_frameserver_libretro_run, its video and    *)
(* audio callbacks, and the shared-memory handoff with the parent process. *)
(* The parent (the consumer) is not part of the sources at hand; it is     *)
(* modelled from the handoff protocol of the specification.                *)
(***************************************************************************)
EXTENDS Integers, Naturals, Sequences, FiniteSets, TLC

(***************************************************************************)
(* Bounds of the model.                                                    *)
(***************************************************************************)
\* round(sample_rate / fps) of the loaded core (avinfo.timing)
SamplesPerFrame == 1
\* most stereo frames the core pushes during one run()
MaxRunFrames == 4
\* largest nframes of one libretro_audcb call
MaxBatch == 2
\* avinfo.geometry.max_width = max_height
MaxDim == 2

(***************************************************************************)
(* Program constants.                                                      *)
(***************************************************************************)
\* retroctx.audbuf[i] = 0xaded, stored in an int16_t
AudbufFill == -21011

\* retroctx.audbuf_nsamples, also the number of int16_t slots malloc'ed
audbuf_nsamples == SamplesPerFrame * 2 + 4

\* the 16-bit source pixels a frame may be filled with
SrcPixels == {0, 32767}

Frames == [w : 1..MaxDim, h : 1..MaxDim, val : SrcPixels]

NoFrame == [w |-> 0, h |-> 0, val |-> 0]

VARIABLES
  pc,           \* position of the producer in arcan_frameserver_libretro_run
  skipframe,    \* retroctx.skipframe
  audbuf,       \* retroctx.audbuf, slots 0 .. audbuf_nsamples-1
  audbuf_used,  \* retroctx.audbuf_used
  audbuf_oob,   \* indices outside the allocation stored to since last empty
  pushed,       \* samples pushed since the accumulator was last empty
  run_frames,   \* stereo frames pushed during the current run()
  vid_called,   \* the core has made its video callback in the current run()
  frame,        \* arguments of the video callback in progress
  shared,       \* retroctx.shared: w, h, resized, vready, aready, abufused
  fb,           \* retroctx.framebuffer: layout and colour of the frame in it
  abuf,         \* the shared audio region at shared + abufofs
  vsync,        \* value of the video semaphore
  async,        \* value of the audio semaphore
  cpc,          \* position of the consumer
  cons_dims,    \* the dimensions the consumer has bound its storage to
  v_waited,     \* a wait on vsync completed since the last framebuffer write
  a_waited,     \* a wait on async completed since the last audio copy
  vid_resize_unacked, \* libretro_vidcb raised resized, consumer has not cleared
  log,          \* what the producer did in the current loop iteration
  peer,         \* the parent process: "alive" or "dead"
  inevq,        \* retroctx.inevq: the inbound ring, its front and back
  joypad,       \* retroctx.inputmatr.joypad[MAX_PORTS][MAX_BUTTONS]
  joypad_oob,   \* offsets stored to beyond the end of joypad
  enqueued,     \* the events the parent has put into the inbound ring
  polled,       \* the events arcan_event_poll has returned to flush_eventq
  handled,      \* the events flush_eventq has passed to ioev_ctxtbl
  io_ev,        \* the event flush_eventq took last
  io_before,    \* joypad when that event was taken
  raster_in,    \* arguments of the tui_raster_render call
  raster_out,   \* what the call returned and left in its outputs
  vid_args,     \* a frame handed to libretro_vidcb: data, width, height, pitch
  vid_dbuf,     \* the pixels that call stored through dbuf
  aud_args,     \* an accumulator state and the stereo frames to append
  aud_batch,    \* the accumulator after one libretro_audcb call with them
  aud_samples,  \* the accumulator after a libretro_audscb call for each
  input_query,  \* the last libretro_inputstate call: port, dev, ind, id
  input_answer  \* what that call returned

ctxVars == <<skipframe, audbuf, audbuf_used, audbuf_oob, pushed>>
runVars == <<run_frames, vid_called, frame>>
shmVars == <<shared, fb, abuf>>
semVars == <<vsync, async>>
consVars == <<cpc, cons_dims>>
histVars == <<v_waited, a_waited, vid_resize_unacked, log>>
evVars == <<peer, inevq, joypad, joypad_oob, enqueued, polled, handled,
            io_ev, io_before>>
tuiVars == <<raster_in, raster_out>>
cbVars == <<vid_args, vid_dbuf, aud_args, aud_batch, aud_samples,
            input_query, input_answer>>

vars == <<pc, ctxVars, runVars, shmVars, semVars, consVars, histVars,
          evVars, tuiVars, cbVars>>

(***************************************************************************)
(* RGB1555 to RGBA, lines 153-157.  The uint32_t stored through dbuf is    *)
(* given by its four bytes, most significant first:                        *)
(* (0xff) << 24 | b << 16 | g << 8 | r.                                    *)
(***************************************************************************)
\* the expansion that fills the low bits from the high ones instead
RGB1555toRGBA_Replicated(val) ==
  LET r5 == (val \div 1024) % 32
      g5 == (val \div 32) % 32
      b5 == val % 32
  IN  <<255, b5 * 8 + b5 \div 4, g5 * 8 + g5 \div 4, r5 * 8 + r5 \div 4>>

RGB1555toRGBA(val) ==
  LET r == (((val \div 1024) % 32) * 8) % 256
      g == (((val \div 32) % 32) * 8) % 256
      b == ((val % 32) * 8) % 256
  IN  <<255, b, g, r>>

(***************************************************************************)
(* The input matrix and the inbound event ring.                            *)
(***************************************************************************)
\* lines 55-56 and 59-60
MAX_PORTS == 4

MAX_BUTTONS == 12

\* slots of shared->childdevq.evqueue (n_eventbuf, line 371)
EvQueueSlots == 3

\* events the parent enqueues over a run
MaxEvents == 3

NoEvent == [category |-> "NONE", label |-> << >>, datatype |-> "NONE",
            active |-> FALSE]

\* retroctx = {0} (line 113): every joypad entry is false
JoypadClear == [p \in 0..(MAX_PORTS - 1) |->
                 [b \in 0..(MAX_BUTTONS - 1) |-> FALSE]]

\* the ring as the parent created it (lines 365-371 bind inevq to it)
EventInit ==
  /\ peer = "alive"
  /\ inevq = [buf |-> [i \in 0..(EvQueueSlots - 1) |-> NoEvent],
              front |-> 0, back |-> 0]
  /\ joypad = JoypadClear
  /\ joypad_oob = {}
  /\ enqueued = << >>
  /\ polled = << >>
  /\ handled = << >>
  /\ io_ev = NoEvent
  /\ io_before = JoypadClear

\* no tui_raster_render call is in progress
NoRaster == [call |-> "none"]

RasterIdle ==
  /\ raster_in = NoRaster
  /\ raster_out = NoRaster

\* no callback is being looked at on its own
NoCall == [call |-> "none"]

CallbackIdle ==
  /\ vid_args = NoCall
  /\ vid_dbuf = << >>
  /\ aud_args = NoCall
  /\ aud_batch = NoCall
  /\ aud_samples = NoCall
  /\ input_query = NoCall
  /\ input_answer = 0

(***************************************************************************)
(* The state when frameserver_getshm has returned (line 357).              *)
(***************************************************************************)
\* retroctx = {0} (line 113), the accumulator allocated and filled (351-355)
ProducerInit ==
  /\ pc = "setup"
  /\ skipframe = FALSE
  /\ audbuf = [i \in 0..(audbuf_nsamples - 1) |-> AudbufFill]
  /\ audbuf_used = 0
  /\ audbuf_oob = {}
  /\ pushed = 0
  /\ run_frames = 0
  /\ vid_called = FALSE
  /\ frame = NoFrame

\* the segment as the parent created it: the maximum geometry, the flags
\* clear, the buffers blank, both semaphores free
SegmentInit ==
  /\ shared = [w |-> MaxDim, h |-> MaxDim, resized |-> FALSE,
               vready |-> FALSE, aready |-> FALSE, abufused |-> 0]
  /\ fb = [w |-> MaxDim, h |-> MaxDim, px |-> <<0, 0, 0, 0>>]
  /\ abuf = << >>
  /\ vsync = 1
  /\ async = 1

\* the parent has bound no storage yet
ConsumerInit ==
  /\ cpc = "idle"
  /\ cons_dims = <<0, 0>>

Init ==
  /\ ProducerInit
  /\ SegmentInit
  /\ ConsumerInit
  /\ v_waited = FALSE
  /\ a_waited = FALSE
  /\ vid_resize_unacked = FALSE
  /\ log = << >>
  /\ EventInit
  /\ RasterIdle
  /\ CallbackIdle

(***************************************************************************)
(* Stores into the accumulator.  The allocation holds audbuf_nsamples      *)
(* slots (line 352); a store at an index beyond it leaves the slots        *)
(* untouched and lands in the memory after the block, which audbuf_oob     *)
(* records.                                                                *)
(***************************************************************************)
WriteSamples(buf, at, data) ==
  [i \in DOMAIN buf |->
     IF i >= at /\ i < at + Len(data) THEN data[i - at + 1] ELSE buf[i]]

OobIndices(at, n) == {i \in at..(at + n - 1) : i >= audbuf_nsamples}

\* the next n samples the core produces: each carries its number in the
\* sequence pushed since the accumulator was last empty
NextSamples(n) == [k \in 1..n |-> pushed + k]

\* after a store outside the allocation the process either goes on with the
\* neighbouring memory overwritten or is stopped by the fault
AfterStore(oob) == IF oob = {} THEN {"run"} ELSE {"run", "crashed"}

\* lines 171 and 180
WrapCursor(u) == u % (audbuf_nsamples + 1)

(***************************************************************************)
(* libretro_audcb, lines 167-174.                                          *)
(***************************************************************************)
libretro_audcb(nframes) ==
  /\ pc = "run"
  /\ run_frames + nframes <= MaxRunFrames
  /\ audbuf' = WriteSamples(audbuf, audbuf_used, NextSamples(nframes * 2))
  /\ audbuf_oob' = audbuf_oob \cup OobIndices(audbuf_used, nframes * 2)
  /\ audbuf_used' = WrapCursor(audbuf_used + nframes * 2)
  /\ pushed' = pushed + nframes * 2
  /\ run_frames' = run_frames + nframes
  /\ pc' \in AfterStore(OobIndices(audbuf_used, nframes * 2))
  /\ UNCHANGED <<skipframe, vid_called, frame, shmVars, semVars, consVars,
                 histVars>>
  /\ UNCHANGED <<evVars, tuiVars, cbVars>>

(***************************************************************************)
(* libretro_audscb, lines 176-181.                                         *)
(***************************************************************************)
libretro_audscb ==
  /\ pc = "run"
  /\ run_frames + 1 <= MaxRunFrames
  /\ LET left == NextSamples(2)[1]
         right == NextSamples(2)[2]
         afterLeft == WriteSamples(audbuf, audbuf_used, <<left>>)
     IN  audbuf' = WriteSamples(afterLeft, audbuf_used + 1, <<right>>)
  /\ audbuf_oob' = audbuf_oob \cup OobIndices(audbuf_used, 1)
                              \cup OobIndices(audbuf_used + 1, 1)
  /\ audbuf_used' = WrapCursor(audbuf_used + 1 + 1)
  /\ pushed' = pushed + 2
  /\ run_frames' = run_frames + 1
  /\ pc' \in AfterStore(OobIndices(audbuf_used, 2))
  /\ UNCHANGED <<skipframe, vid_called, frame, shmVars, semVars, consVars,
                 histVars>>
  /\ UNCHANGED <<evVars, tuiVars, cbVars>>

(***************************************************************************)
(* retroctx.run() (line 391) makes the core call back: audio through       *)
(* either entry point, and at most one video frame per call.               *)
(***************************************************************************)
RunVideoRefresh(f) ==
  /\ pc = "run"
  /\ ~vid_called
  /\ vid_called' = TRUE
  /\ frame' = f
  /\ pc' = "vidcb"
  /\ UNCHANGED <<ctxVars, run_frames, shmVars, semVars, consVars, histVars>>
  /\ UNCHANGED <<evVars, tuiVars, cbVars>>

RunReturn ==
  /\ pc = "run"
  /\ run_frames' = 0
  /\ vid_called' = FALSE
  /\ pc' = "frameskip"
  /\ UNCHANGED <<ctxVars, frame, shmVars, semVars, consVars, histVars>>
  /\ UNCHANGED <<evVars, tuiVars, cbVars>>

(***************************************************************************)
(* libretro_vidcb, lines 130-164.  Each store into the shared page is a    *)
(* step of its own: the consumer runs concurrently.                        *)
(***************************************************************************)
\* the flag is tested but never cleared
VidcbEnter_KeepFlag ==
  /\ pc = "vidcb"
  /\ IF skipframe
       THEN /\ frame' = NoFrame
            /\ log' = Append(log, "vid_skip")
            /\ pc' = "run"
       ELSE /\ pc' = IF frame.w # shared.w \/ frame.h # shared.h
                       THEN "vid_setw" ELSE "vid_write"
            /\ UNCHANGED <<frame, log>>
  /\ UNCHANGED <<skipframe, audbuf, audbuf_used, audbuf_oob, pushed,
                 run_frames, vid_called, shmVars, semVars, consVars, v_waited,
                 a_waited, vid_resize_unacked>>
  /\ UNCHANGED <<evVars, tuiVars, cbVars>>

\* lines 132-139
VidcbEnter ==
  /\ pc = "vidcb"
  /\ IF skipframe
       THEN /\ skipframe' = FALSE
            /\ frame' = NoFrame
            /\ log' = Append(log, "vid_skip")
            /\ pc' = "run"
       ELSE /\ pc' = IF frame.w # shared.w \/ frame.h # shared.h
                       THEN "vid_setw" ELSE "vid_write"
            /\ UNCHANGED <<skipframe, frame, log>>
  /\ UNCHANGED <<audbuf, audbuf_used, audbuf_oob, pushed, run_frames,
                 vid_called, shmVars, semVars, consVars, v_waited, a_waited,
                 vid_resize_unacked>>
  /\ UNCHANGED <<evVars, tuiVars, cbVars>>

\* line 140
VidcbSetW ==
  /\ pc = "vid_setw"
  /\ shared' = [shared EXCEPT !.w = frame.w]
  /\ pc' = "vid_seth"
  /\ UNCHANGED <<ctxVars, runVars, fb, abuf, semVars, consVars, histVars>>
  /\ UNCHANGED <<evVars, tuiVars, cbVars>>

\* line 141
VidcbSetH ==
  /\ pc = "vid_seth"
  /\ shared' = [shared EXCEPT !.h = frame.h]
  /\ pc' = "vid_setres"
  /\ UNCHANGED <<ctxVars, runVars, fb, abuf, semVars, consVars, histVars>>
  /\ UNCHANGED <<evVars, tuiVars, cbVars>>

\* the dimensions are changed and the flag is forgotten
VidcbSetResized_Forgotten ==
  /\ pc = "vid_setres"
  /\ pc' = "vid_write"
  /\ UNCHANGED <<ctxVars, runVars, shmVars, semVars, consVars, histVars>>
  /\ UNCHANGED <<evVars, tuiVars, cbVars>>

\* line 142
VidcbSetResized ==
  /\ pc = "vid_setres"
  /\ shared' = [shared EXCEPT !.resized = TRUE]
  /\ vid_resize_unacked' = TRUE
  /\ pc' = "vid_write"
  /\ UNCHANGED <<ctxVars, runVars, fb, abuf, semVars, consVars, v_waited,
                 a_waited, log>>
  /\ UNCHANGED <<evVars, tuiVars, cbVars>>

\* lines 146-162
VidcbWrite ==
  /\ pc = "vid_write"
  /\ fb' = [w |-> frame.w, h |-> frame.h, px |-> RGB1555toRGBA(frame.val)]
  /\ frame' = NoFrame
  /\ v_waited' = FALSE
  /\ log' = Append(log, "vid_write")
  /\ pc' = "run"
  /\ UNCHANGED <<ctxVars, run_frames, vid_called, shared, abuf, semVars,
                 consVars, a_waited, vid_resize_unacked>>
  /\ UNCHANGED <<evVars, tuiVars, cbVars>>

(***************************************************************************)
(* arcan_frameserver_libretro_run, lines 357-413.                          *)
(***************************************************************************)
\* the setup goes on without the wait
SetupSemcheck_Skipped ==
  /\ pc = "setup"
  /\ pc' = "setup_resized"
  /\ UNCHANGED <<ctxVars, runVars, shmVars, semVars, consVars, histVars>>
  /\ UNCHANGED <<evVars, tuiVars, cbVars>>

\* line 362: frameserver_semcheck(cont.vsem, -1)
SetupSemcheck ==
  /\ pc = "setup"
  /\ vsync > 0
  /\ vsync' = vsync - 1
  /\ v_waited' = TRUE
  /\ pc' = "setup_resized"
  /\ UNCHANGED <<ctxVars, runVars, shmVars, async, consVars, a_waited,
                 vid_resize_unacked, log>>
  /\ UNCHANGED <<evVars, tuiVars, cbVars>>

\* lines 363-385: the queues are bound, resized is raised, the core is reset
SetupResized ==
  /\ pc = "setup_resized"
  /\ shared' = [shared EXCEPT !.resized = TRUE]
  /\ pc' = "flush_eventq"
  /\ UNCHANGED <<ctxVars, runVars, fb, abuf, semVars, consVars, histVars>>
  /\ UNCHANGED <<evVars, tuiVars, cbVars>>

\* a poll that returns NULL is taken for the death of the parent
FlushEventq_ExitOnTimeout ==
  /\ pc = "flush_eventq"
  /\ inevq.front = inevq.back
  /\ log' = << >>
  /\ pc' = "exited"
  /\ UNCHANGED <<ctxVars, runVars, shmVars, semVars, consVars, v_waited,
                 a_waited, vid_resize_unacked>>
  /\ UNCHANGED <<evVars, tuiVars, cbVars>>

\* line 390: flush_eventq(), the first statement of an iteration
FlushEventq ==
  /\ pc = "flush_eventq"
  /\ inevq.front = inevq.back
  /\ log' = << >>
  /\ pc' = "run"
  /\ UNCHANGED <<ctxVars, runVars, shmVars, semVars, consVars, v_waited,
                 a_waited, vid_resize_unacked>>
  /\ UNCHANGED <<evVars, tuiVars, cbVars>>

\* line 393, "if we're lagging behind, drop the next frame": the sources set
\* skipframe nowhere; the control logic around the loop may raise it here
FrameskipPolicy(lagging) ==
  /\ pc = "frameskip"
  /\ skipframe' = (skipframe \/ lagging)
  /\ pc' = "set_vready"
  /\ UNCHANGED <<audbuf, audbuf_used, audbuf_oob, pushed, runVars, shmVars,
                 semVars, consVars, histVars>>
  /\ UNCHANGED <<evVars, tuiVars, cbVars>>

\* vready is set only when the video callback copied a frame in this run()
SetVready_OnlyAfterFrame ==
  /\ pc = "set_vready"
  /\ IF \E i \in DOMAIN log : log[i] = "vid_write"
       THEN /\ shared' = [shared EXCEPT !.vready = TRUE]
            /\ log' = Append(log, "vready")
       ELSE UNCHANGED <<shared, log>>
  /\ pc' = "a_wait"
  /\ UNCHANGED <<ctxVars, runVars, fb, abuf, semVars, consVars, v_waited,
                 a_waited, vid_resize_unacked>>
  /\ UNCHANGED <<evVars, tuiVars, cbVars>>

\* line 399
SetVready ==
  /\ pc = "set_vready"
  /\ shared' = [shared EXCEPT !.vready = TRUE]
  /\ log' = Append(log, "vready")
  /\ pc' = "a_wait"
  /\ UNCHANGED <<ctxVars, runVars, fb, abuf, semVars, consVars, v_waited,
                 a_waited, vid_resize_unacked>>
  /\ UNCHANGED <<evVars, tuiVars, cbVars>>

\* the flush starts without the audio semaphore
AudioSemcheck_NoWait ==
  /\ pc = "a_wait"
  /\ a_waited' = TRUE
  /\ log' = Append(log, "a_wait")
  /\ pc' = "a_flush"
  /\ UNCHANGED <<ctxVars, runVars, shmVars, semVars, consVars, v_waited,
                 vid_resize_unacked>>
  /\ UNCHANGED <<evVars, tuiVars, cbVars>>

\* line 402: frameserver_semcheck(retroctx.async, -1)
AudioSemcheck ==
  /\ pc = "a_wait"
  /\ async > 0
  /\ async' = async - 1
  /\ a_waited' = TRUE
  /\ log' = Append(log, "a_wait")
  /\ pc' = "a_flush"
  /\ UNCHANGED <<ctxVars, runVars, shmVars, vsync, consVars, v_waited,
                 vid_resize_unacked>>
  /\ UNCHANGED <<evVars, tuiVars, cbVars>>

\* abufused is given the count of samples, not of bytes
AudioFlush_SampleCount ==
  /\ pc = "a_flush"
  /\ shared' = [shared EXCEPT !.abufused = audbuf_used]
  /\ abuf' = [k \in 1..(audbuf_used \div 2) |-> audbuf[k - 1]]
  /\ audbuf_used' = 0
  /\ pushed' = 0
  /\ audbuf_oob' = {}
  /\ a_waited' = FALSE
  /\ log' = Append(log, "a_flush")
  /\ pc' = "a_ready"
  /\ UNCHANGED <<skipframe, audbuf, runVars, fb, semVars,
                 consVars, v_waited, vid_resize_unacked>>
  /\ UNCHANGED <<evVars, tuiVars, cbVars>>

\* lines 405-407: abufused in bytes, the copy, the accumulator emptied
AudioFlush ==
  /\ pc = "a_flush"
  /\ shared' = [shared EXCEPT !.abufused = 2 * audbuf_used]
  /\ abuf' = [k \in 1..audbuf_used |-> audbuf[k - 1]]
  /\ audbuf_used' = 0
  /\ pushed' = 0
  /\ audbuf_oob' = {}
  /\ a_waited' = FALSE
  /\ log' = Append(log, "a_flush")
  /\ pc' = "a_ready"
  /\ UNCHANGED <<skipframe, audbuf, runVars, fb, semVars,
                 consVars, v_waited, vid_resize_unacked>>
  /\ UNCHANGED <<evVars, tuiVars, cbVars>>

\* the semaphore is posted with aready never set
AudioReady_Missing ==
  /\ pc = "a_ready"
  /\ pc' = "a_post"
  /\ UNCHANGED <<ctxVars, runVars, shmVars, semVars, consVars, histVars>>
  /\ UNCHANGED <<evVars, tuiVars, cbVars>>

\* line 408
AudioReady ==
  /\ pc = "a_ready"
  /\ shared' = [shared EXCEPT !.aready = TRUE]
  /\ log' = Append(log, "aready")
  /\ pc' = "a_post"
  /\ UNCHANGED <<ctxVars, runVars, fb, abuf, semVars, consVars, v_waited,
                 a_waited, vid_resize_unacked>>
  /\ UNCHANGED <<evVars, tuiVars, cbVars>>

\* line 409: arcan_sem_post(retroctx.async)
AudioPost ==
  /\ pc = "a_post"
  /\ async' = async + 1
  /\ log' = Append(log, "a_post")
  /\ pc' = "v_wait"
  /\ UNCHANGED <<ctxVars, runVars, shmVars, vsync, consVars, v_waited,
                 a_waited, vid_resize_unacked>>
  /\ UNCHANGED <<evVars, tuiVars, cbVars>>

\* line 412: frameserver_semcheck(retroctx.vsync, -1)
VideoSemcheck ==
  /\ pc = "v_wait"
  /\ vsync > 0
  /\ vsync' = vsync - 1
  /\ v_waited' = TRUE
  /\ pc' = "flush_eventq"
  /\ UNCHANGED <<ctxVars, runVars, shmVars, async, consVars, a_waited,
                 vid_resize_unacked, log>>
  /\ UNCHANGED <<evVars, tuiVars, cbVars>>

(***************************************************************************)
(* The consumer (the parent process).  It picks a published frame up when  *)
(* it finds vready set, clears the flag and posts vsync; it takes async    *)
(* around its read of the audio region; it acknowledges resized after      *)
(* binding to the shared dimensions, reading w and h and clearing the flag  *)
(* in one step.  The two channels are served in any order.                 *)
(***************************************************************************)
ConsumerResize ==
  /\ cpc = "idle"
  /\ peer = "alive"
  /\ shared.resized
  /\ cons_dims' = <<shared.w, shared.h>>
  /\ shared' = [shared EXCEPT !.resized = FALSE]
  /\ vid_resize_unacked' = FALSE
  /\ UNCHANGED <<pc, ctxVars, runVars, fb, abuf, semVars, cpc, v_waited,
                 a_waited, log>>
  /\ UNCHANGED <<evVars, tuiVars, cbVars>>

ConsumerVideoBegin ==
  /\ cpc = "idle"
  /\ peer = "alive"
  /\ shared.vready
  /\ ~shared.resized
  /\ cpc' = "vread"
  /\ UNCHANGED <<pc, ctxVars, runVars, shmVars, semVars, cons_dims, histVars>>
  /\ UNCHANGED <<evVars, tuiVars, cbVars>>

ConsumerVideoEnd ==
  /\ cpc = "vread"
  /\ peer = "alive"
  /\ shared' = [shared EXCEPT !.vready = FALSE]
  /\ vsync' = vsync + 1
  /\ cpc' = "idle"
  /\ UNCHANGED <<pc, ctxVars, runVars, fb, abuf, async, cons_dims, histVars>>
  /\ UNCHANGED <<evVars, tuiVars, cbVars>>

ConsumerAudioBegin ==
  /\ cpc = "idle"
  /\ peer = "alive"
  /\ shared.aready
  /\ async > 0
  /\ async' = async - 1
  /\ cpc' = "aread"
  /\ UNCHANGED <<pc, ctxVars, runVars, shmVars, vsync, cons_dims, histVars>>
  /\ UNCHANGED <<evVars, tuiVars, cbVars>>

ConsumerAudioEnd ==
  /\ cpc = "aread"
  /\ peer = "alive"
  /\ shared' = [shared EXCEPT !.aready = FALSE]
  /\ async' = async + 1
  /\ cpc' = "idle"
  /\ UNCHANGED <<pc, ctxVars, runVars, fb, abuf, vsync, cons_dims, histVars>>
  /\ UNCHANGED <<evVars, tuiVars, cbVars>>

(***************************************************************************)
(* Labels.  A label is the sequence of its characters, so that sscanf,     *)
(* strchr and strcmp act on it as they do on the C string.                 *)
(***************************************************************************)
sPLAYER == <<"P", "L", "A", "Y", "E", "R">>
sBUTTON == <<"B", "U", "T", "T", "O", "N">>
sAXIS == <<"A", "X", "I", "S">>
sUP == <<"U", "P">>
sDOWN == <<"D", "O", "W", "N">>
sLEFT == <<"L", "E", "F", "T">>
sRIGHT == <<"R", "I", "G", "H", "T">>
sSELECT == <<"S", "E", "L", "E", "C", "T">>
sSTART == <<"S", "T", "A", "R", "T">>
sFROB == <<"F", "R", "O", "B">>

DigitChars == <<"0", "1", "2", "3", "4", "5", "6", "7", "8", "9">>

IsDigit(c) == \E d \in DOMAIN DigitChars : DigitChars[d] = c

DigitVal(c) == (CHOOSE d \in DOMAIN DigitChars : DigitChars[d] = c) - 1

\* the decimal text of n, as printf("%d") writes it
RECURSIVE NumText(_)
NumText(n) ==
  IF n < 0 THEN <<"-">> \o NumText(0 - n)
  ELSE IF n < 10 THEN <<DigitChars[n + 1]>>
  ELSE NumText(n \div 10) \o <<DigitChars[(n % 10) + 1]>>

\* the label PLAYERn_sub
PlayerLabel(n, sub) == sPLAYER \o NumText(n) \o <<"_">> \o sub

\* the %d directive: white space is skipped, a sign is optional, at least
\* one digit is needed.  n is the count of conversions made, -1 for EOF.
ScanInt(s) ==
  LET len == Len(s)
      spaces == Cardinality({k \in 1..len : \A i \in 1..k : s[i] = " "})
      signed == spaces < len /\ s[spaces + 1] \in {"-", "+"}
      first == spaces + (IF signed THEN 2 ELSE 1)
      digits == Cardinality({k \in 1..(len - first + 1) :
                               \A i \in 1..k : IsDigit(s[first + i - 1])})
      run[i \in 0..digits] ==
        IF i = 0 THEN 0 ELSE run[i - 1] * 10 + DigitVal(s[first + i - 1])
  IN  IF spaces = len THEN [n |-> -1, val |-> 0]
      ELSE IF digits = 0 THEN [n |-> 0, val |-> 0]
      ELSE [n |-> 1,
            val |-> IF signed /\ s[spaces + 1] = "-" THEN 0 - run[digits]
                    ELSE run[digits]]

\* sscanf(s, lit "%d..."): the literal has to match before the conversion
\* is tried; what follows %d in the format cannot change the result
sscanf(s, lit) ==
  IF Len(s) >= Len(lit) /\ SubSeq(s, 1, Len(lit)) = lit
  THEN ScanInt(SubSeq(s, Len(lit) + 1, Len(s)))
  ELSE IF Len(s) < Len(lit) /\ s = SubSeq(lit, 1, Len(s))
  THEN [n |-> -1, val |-> 0]
  ELSE [n |-> 0, val |-> 0]

\* strchr(s, c): the position of the first c in s, 0 for NULL
strchr(s, c) ==
  IF \E i \in DOMAIN s : s[i] = c
  THEN CHOOSE i \in DOMAIN s : s[i] = c /\ \A j \in 1..(i - 1) : s[j] # c
  ELSE 0

\* libretro.h, RETRO_DEVICE_ID_JOYPAD_*
RETRO_DEVICE_ID_JOYPAD ==
  [B |-> 0, Y |-> 1, SELECT |-> 2, START |-> 3, UP |-> 4, DOWN |-> 5,
   LEFT |-> 6, RIGHT |-> 7, A |-> 8, X |-> 9, L |-> 10, R |-> 11]

\* lines 220-227
remaptbl == <<RETRO_DEVICE_ID_JOYPAD.A, RETRO_DEVICE_ID_JOYPAD.B,
              RETRO_DEVICE_ID_JOYPAD.X, RETRO_DEVICE_ID_JOYPAD.Y,
              RETRO_DEVICE_ID_JOYPAD.L, RETRO_DEVICE_ID_JOYPAD.R>>

\* line 259, joypad[port][button] = value.  The address is
\* joypad + port * MAX_BUTTONS + button: a button beyond the row lands in a
\* later row, or after the matrix; joypad_oob records every such store.
StoreJoypad(jp, oob, port, button, value) ==
  LET at == port * MAX_BUTTONS + button
      inside == at < MAX_PORTS * MAX_BUTTONS
  IN  [joypad |-> IF inside
                  THEN [jp EXCEPT ![at \div MAX_BUTTONS][at % MAX_BUTTONS] =
                                    value]
                  ELSE jp,
       oob |-> IF button >= MAX_BUTTONS THEN oob \cup {at} ELSE oob]

\* the strcmp chain of lines 245-256; kept is what button holds on entry
SubtypeButton(subtype, kept) ==
  IF subtype = sUP THEN RETRO_DEVICE_ID_JOYPAD.UP
  ELSE IF subtype = sDOWN THEN RETRO_DEVICE_ID_JOYPAD.DOWN
  ELSE IF subtype = sLEFT THEN RETRO_DEVICE_ID_JOYPAD.LEFT
  ELSE IF subtype = sRIGHT THEN RETRO_DEVICE_ID_JOYPAD.RIGHT
  ELSE IF subtype = sSELECT THEN RETRO_DEVICE_ID_JOYPAD.SELECT
  ELSE IF subtype = sSTART THEN RETRO_DEVICE_ID_JOYPAD.START
  ELSE kept

\* lines 235-257: what ioev_ctxtbl makes of a label.  button is -1 when
\* line 259 finds nothing to store.  sscanf stores the number it converts
\* whether or not the range test after it passes, so button holds that
\* number in the else-branches.
LabelTarget(label) ==
  LET pl == sscanf(label, sPLAYER)
      us == strchr(label, "_")
      ind == pl.val
      subtype == SubSeq(label, us + 1, Len(label))
      bt == sscanf(subtype, sBUTTON)
      ax == sscanf(subtype, sAXIS)
      scanned == IF bt.n = 1 THEN bt.val ELSE -1
      button ==
        IF bt.n = 1 /\ bt.val > 0 /\ bt.val <= MAX_BUTTONS - 6
        THEN IF bt.val - 1 > Len(remaptbl) - 1 THEN -1 ELSE remaptbl[bt.val]
        ELSE IF ax.n = 1 /\ ax.val > 0 /\ ax.val <= 2 THEN scanned
        ELSE SubtypeButton(subtype, scanned)
  IN  IF pl.n = 1 /\ ind > 0 /\ ind < MAX_PORTS /\ us # 0
      THEN [port |-> ind - 1, button |-> button]
      ELSE [port |-> 0, button |-> -1]

\* largest n of a PLAYERn_ label
MaxPlayerNo == 5

\* largest a of a BUTTONa label
MaxButtonNo == 13

PlayerTexts == {NumText(n) : n \in 0..MaxPlayerNo} \cup {<< >>}

\* subtypes; the BUTTON numbers run to MaxButtonNo, and one names the first
\* offset after the matrix
Subtypes ==
  {sBUTTON \o NumText(a) : a \in 0..MaxButtonNo \cup {MAX_PORTS * MAX_BUTTONS}}
    \cup {sAXIS \o NumText(k) : k \in 0..3}
    \cup {sBUTTON, sUP, sDOWN, sLEFT, sRIGHT, sSELECT, sSTART, sFROB,
          sUP \o <<"X">>, << >>}

Labels ==
  {pre \o nt \o sep \o sub :
     pre \in {sPLAYER, <<"P", "A", "D">>}, nt \in PlayerTexts,
     sep \in {<<"_">>, << >>, <<"X", "_">>}, sub \in Subtypes}

\* the labels of the events in use, each with what the handler makes of it
LabelTargets == [l \in Labels |-> LabelTarget(l)]

\* lines 229-264
ioev_ctxtbl(jp, oob, ioev) ==
  LET value == ioev.active
      target == LabelTargets[ioev.label]
  IN  IF target.button >= 0
      THEN StoreJoypad(jp, oob, target.port, target.button, value)
      ELSE [joypad |-> jp, oob |-> oob]

\* offers every event to ioev_ctxtbl, whatever its category
FlushEventqDispatch_AnyCategory ==
  /\ pc = "flush_eventq"
  /\ inevq.front # inevq.back
  /\ LET ev == inevq.buf[inevq.front]
         after == ioev_ctxtbl(joypad, joypad_oob, ev)
     IN  /\ inevq' = [inevq EXCEPT !.front = (inevq.front + 1) % EvQueueSlots]
         /\ polled' = Append(polled, ev)
         /\ handled' = Append(handled, ev)
         /\ joypad' = after.joypad
         /\ joypad_oob' = after.oob
         /\ io_ev' = ev
         /\ io_before' = joypad
  /\ UNCHANGED <<pc, ctxVars, runVars, shmVars, semVars, consVars, histVars,
                 peer, enqueued, tuiVars, cbVars>>

\* lines 275-280: one turn of the while loop of flush_eventq.  The poll
\* takes the event at front; only an EVENT_IO event goes to ioev_ctxtbl.
FlushEventqDispatch ==
  /\ pc = "flush_eventq"
  /\ inevq.front # inevq.back
  /\ LET ev == inevq.buf[inevq.front]
         io == ev.category = "IO"
         after == IF io THEN ioev_ctxtbl(joypad, joypad_oob, ev)
                  ELSE [joypad |-> joypad, oob |-> joypad_oob]
     IN  /\ inevq' = [inevq EXCEPT !.front = (inevq.front + 1) % EvQueueSlots]
         /\ polled' = Append(polled, ev)
         /\ handled' = IF io THEN Append(handled, ev) ELSE handled
         /\ joypad' = after.joypad
         /\ joypad_oob' = after.oob
         /\ io_ev' = ev
         /\ io_before' = joypad
  /\ UNCHANGED <<pc, ctxVars, runVars, shmVars, semVars, consVars, histVars,
                 peer, enqueued, tuiVars, cbVars>>

Next ==
  \/ SetupSemcheck
  \/ SetupResized
  \/ FlushEventq
  \/ \E n \in 1..MaxBatch : libretro_audcb(n)
  \/ libretro_audscb
  \/ \E f \in Frames : RunVideoRefresh(f)
  \/ RunReturn
  \/ VidcbEnter
  \/ VidcbSetW
  \/ VidcbSetH
  \/ VidcbSetResized
  \/ VidcbWrite
  \/ \E lagging \in BOOLEAN : FrameskipPolicy(lagging)
  \/ SetVready
  \/ AudioSemcheck
  \/ AudioFlush
  \/ AudioReady
  \/ AudioPost
  \/ VideoSemcheck
  \/ ConsumerResize
  \/ ConsumerVideoBegin
  \/ ConsumerVideoEnd
  \/ ConsumerAudioBegin
  \/ ConsumerAudioEnd

Spec == Init /\ [][Next]_vars

(***************************************************************************)
(* The main loop with the inbound ring in use and a parent that may die.   *)
(* The core makes no callback during run().                                *)
(***************************************************************************)
QueueEvents ==
  {[category |-> "IO", label |-> PlayerLabel(1, sUP),
    datatype |-> "DIGITAL", active |-> TRUE],
   [category |-> "IO", label |-> PlayerLabel(2, sBUTTON \o NumText(1)),
    datatype |-> "TRANSLATED", active |-> TRUE],
   [category |-> "SYSTEM", label |-> PlayerLabel(1, sDOWN),
    datatype |-> "NONE", active |-> TRUE]}

\* the parent puts an event at back; a full ring refuses it
ParentEnqueue(ev) ==
  /\ peer = "alive"
  /\ Len(enqueued) < MaxEvents
  /\ (inevq.back + 1) % EvQueueSlots # inevq.front
  /\ inevq' = [inevq EXCEPT !.buf[inevq.back] = ev,
                            !.back = (inevq.back + 1) % EvQueueSlots]
  /\ enqueued' = Append(enqueued, ev)
  /\ UNCHANGED <<pc, ctxVars, runVars, shmVars, semVars, consVars, histVars,
                 peer, joypad, joypad_oob, polled, handled, io_ev, io_before,
                 tuiVars, cbVars>>

\* the parent process terminates, wherever it is
ParentDies ==
  /\ peer = "alive"
  /\ peer' = "dead"
  /\ UNCHANGED <<pc, ctxVars, runVars, shmVars, semVars, consVars, histVars,
                 inevq, joypad, joypad_oob, enqueued, polled, handled, io_ev,
                 io_before, tuiVars, cbVars>>

\* lines 271-273: with the parent dead, frameserver_semcheck (lines 362,
\* 402, 412) does not return: the process exits in it
SemcheckPeerGone ==
  /\ pc \in {"setup", "a_wait", "v_wait"}
  /\ peer = "dead"
  /\ pc' = "exited"
  /\ UNCHANGED <<ctxVars, runVars, shmVars, semVars, consVars, histVars,
                 evVars, tuiVars, cbVars>>

EvProducer ==
  \/ SetupSemcheck
  \/ SetupResized
  \/ FlushEventqDispatch
  \/ FlushEventq
  \/ RunReturn
  \/ FrameskipPolicy(FALSE)
  \/ SetVready
  \/ AudioSemcheck
  \/ AudioFlush
  \/ AudioReady
  \/ AudioPost
  \/ VideoSemcheck
  \/ SemcheckPeerGone

EvNext ==
  \/ EvProducer
  \/ \E ev \in QueueEvents : ParentEnqueue(ev)
  \/ ParentDies
  \/ ConsumerResize
  \/ ConsumerVideoBegin
  \/ ConsumerVideoEnd
  \/ ConsumerAudioBegin
  \/ ConsumerAudioEnd

EvSpec == Init /\ [][EvNext]_vars

\* the producer is a process of its own: it takes its next step whenever
\* it has one
EvLiveSpec == Init /\ [][EvNext]_vars /\ WF_vars(EvProducer)

(***************************************************************************)
(* The cell raster decoder, video.c lines 767-919.  The input buffer is    *)
(* the header followed by units of six bytes, each three 16-bit numbers: a *)
(* line header is one unit (start_line, offset, ncells), a cell is two.    *)
(* The decoder reads at its own position, so a unit written as the one is  *)
(* read as the other when the counts of the input disagree.                *)
(***************************************************************************)
\* raster.h: the packed sizes of the header, a line header and a cell
raster_hdr_sz == 14

raster_line_sz == 6

raster_cell_sz == 12

\* tui_int.h: the bit of the attribute byte that marks a cell as skipped
CATTR_SKIP == 5

\* ctx->cell_w and ctx->cell_h, in pixels
CellW == 2

CellH == 3

\* largest start_line and largest offset of a line header
MaxRow == 2

MaxCol == 2

\* x1, y1, x2, y2 of tui_raster_render before the call (line 910): not set
Unset == -1

u16(v) == v % 65536

\* lines 647-653: the twelve bytes of a cell, given as two units
unpack_cell(w1, w2) ==
  [fc |-> <<w1[1] % 256, w1[1] \div 256, w1[2] % 256>>,
   bc |-> <<w1[2] \div 256, w1[3] % 256, w1[3] \div 256>>,
   attr |-> w2[1] % 256,
   ucs4 |-> <<w2[2], w2[3]>>]

\* the colour of draw_box_px at line 837 is bgc, not a cell
NoCell == [fc |-> <<0, 0, 0>>, bc |-> <<0, 0, 0>>, attr |-> 0,
           ucs4 |-> <<0, 0>>]

\* cell.attr & (1 << CATTR_SKIP)
IsSkip(cell) == (cell.attr \div (2 ^ CATTR_SKIP)) % 2 = 1

\* the unit k units after the header; one past the units the caller's
\* buffer holds is whatever lies in memory there
WordAt(in, k) == IF k <= Len(in.words) THEN in.words[k] ELSE in.beyond

\* reading n units at the position of st leaves the caller's buffer
ReadsBeyond(in, st, n) == st.pos + n > Len(in.words)

\* the skip bit not acted on: the draw position stays
SkipAdvance_Stay(in, draw_x) == draw_x

\* line 873: a cell with the skip bit moves the draw position on
SkipAdvance(in, draw_x) == draw_x + in.cell_w

\* what became of one cell of line i read with the draw position at (x, y),
\* and how many drawing operations had been made before and after it
CellStep(kind, st, x, y, after) ==
  [kind |-> kind, line |-> st.i, x |-> x, y |-> y,
   before |-> Len(st.draws), after |-> after]

\* lines 861-888, the loop over the cells of one line; dropped notes where
\* a cell failed the test of line 878, steps what became of each cell
RECURSIVE CellLoop(_, _, _, _, _)
CellLoop(in, st, ncells, draw_x, draw_y) ==
  IF ncells = 0 \/ st.buf_sz < raster_cell_sz THEN st
  ELSE IF ReadsBeyond(in, st, 2) /\ in.fault
  THEN [st EXCEPT !.over = TRUE, !.fault = TRUE]
  ELSE
    LET cell == unpack_cell(WordAt(in, st.pos + 1), WordAt(in, st.pos + 2))
        st1 == [st EXCEPT !.pos = @ + 2,
                          !.buf_sz = @ - raster_cell_sz,
                          !.over = @ \/ ReadsBeyond(in, st, 2)]
        after_x == draw_x + in.cell_w
        next_x == u16(after_x + in.cell_w)
    IN  IF IsSkip(cell)
        THEN CellLoop(in,
               [st1 EXCEPT !.steps = Append(@, CellStep("skip", st, draw_x,
                                                        draw_y, Len(st.draws)))],
               ncells - 1, SkipAdvance(in, draw_x), draw_y)
        ELSE IF draw_x + in.cell_w < in.max_w /\ draw_y + in.cell_h < in.max_h
        THEN CellLoop(in,
               [st1 EXCEPT
                  !.draws = Append(@, [op |-> "glyph", x |-> draw_x,
                                       y |-> draw_y, w |-> in.cell_w,
                                       h |-> in.cell_h, cell |-> cell]),
                  !.x2 = IF @ < next_x /\ next_x <= in.max_w
                         THEN next_x ELSE @,
                  !.steps = Append(@, CellStep("glyph", st, draw_x, draw_y,
                                               Len(st.draws) + 1))],
               ncells - 1, after_x, draw_y)
        ELSE CellLoop(in,
               [st1 EXCEPT
                  !.dropped = Append(@, [x |-> draw_x, y |-> draw_y]),
                  !.steps = Append(@, CellStep("drop", st, draw_x, draw_y,
                                               Len(st.draws)))],
               ncells - 1, draw_x, draw_y)

\* the lowest line is taken to be the one read last
LastLine_Latest(last_line, start_line) == start_line

\* lines 823-824: the lowest line seen, the lines not being ordered
LastLine(last_line, start_line) ==
  IF start_line > last_line THEN start_line ELSE last_line

\* what raster_tobuf hands back
RasterResult(st, ret) ==
  [ret |-> ret, fault |-> st.fault, x1 |-> st.x1, y1 |-> st.y1,
   x2 |-> st.x2, y2 |-> st.y2, draws |-> st.draws,
   dropped |-> st.dropped, steps |-> st.steps, over |-> st.over]

\* lines 812-898, the loop over the lines.  buf_sz is lowered for the
\* cells only (line 868), never for a line header (line 820).  A gap box
\* whose height is negative here is that number wrapped to size_t.
RECURSIVE LineLoop(_, _)
LineLoop(in, st) ==
  IF st.fault THEN RasterResult(st, 0)
  ELSE IF st.i >= in.lines \/ st.buf_sz = 0
  THEN RasterResult([st EXCEPT !.y2 = IF in.dirty
                                      THEN u16((st.last_line + 1) * in.cell_h)
                                      ELSE @], 1)
  ELSE IF st.buf_sz < raster_line_sz THEN RasterResult(st, -1)
  ELSE IF ReadsBeyond(in, st, 1) /\ in.fault
  THEN RasterResult([st EXCEPT !.over = TRUE, !.fault = TRUE], 0)
  ELSE
    LET line == WordAt(in, st.pos + 1)
        start_line == line[1]
        offset == line[2]
        ncells == line[3]
        update == in.dirty
        last_line == LastLine(st.last_line, start_line)
        y1a == IF update /\ st.cur_y = -1 THEN u16(start_line * in.cell_h)
               ELSE st.y1
        gap == st.cur_y # start_line /\ ~update /\ st.cur_y # -1
        draws == IF gap
                 THEN Append(st.draws,
                        [op |-> "box", x |-> 0, y |-> st.cur_y * in.cell_h,
                         w |-> in.cell_w,
                         h |-> in.cell_h * (start_line - st.cur_y),
                         cell |-> NoCell])
                 ELSE st.draws
        cur_y == start_line
        draw_y == cur_y * in.cell_h
        y1b == IF draw_y < y1a THEN draw_y ELSE y1a
        draw_x == offset * in.cell_w
        x1 == IF draw_x < st.x1 THEN draw_x ELSE st.x1
        st1 == [st EXCEPT !.pos = @ + 1,
                          !.over = @ \/ ReadsBeyond(in, st, 1),
                          !.last_line = last_line,
                          !.y1 = y1b, !.x1 = x1, !.draws = draws]
        st2 == CellLoop(in, st1, ncells, draw_x, draw_y)
    IN  LineLoop(in, [st2 EXCEPT !.cur_y = cur_y + 1, !.i = @ + 1])

\* lines 767-899
raster_tobuf(in) ==
  LET untouched == [pos |-> 0, buf_sz |-> in.buf_sz, i |-> 0, cur_y |-> -1,
                    last_line |-> 0, x1 |-> Unset, y1 |-> Unset,
                    x2 |-> Unset, y2 |-> Unset, draws |-> << >>,
                    dropped |-> << >>, steps |-> << >>, over |-> FALSE,
                    fault |-> FALSE]
      hdr_ver_sz == in.lines * raster_line_sz + in.cells * raster_cell_sz
                      + raster_hdr_sz
  IN  IF in.buf_sz = 0 \/ in.buf_sz < raster_hdr_sz
      THEN RasterResult(untouched, -1)
      ELSE IF in.data_sz > in.buf_sz \/ in.data_sz # hdr_ver_sz
      THEN RasterResult(untouched, -1)
      ELSE LineLoop(in,
             [untouched EXCEPT
                !.buf_sz = @ - raster_hdr_sz,
                !.x1 = IF in.dirty THEN u16(in.max_w) ELSE 0,
                !.y1 = IF in.dirty THEN u16(in.max_h) ELSE 0,
                !.x2 = IF in.dirty THEN 0 ELSE u16(in.max_w),
                !.y2 = IF in.dirty THEN 0 ELSE u16(in.max_h)])

\* lines 901-919; dirty holds the region given to arcan_shmif_dirty
tui_raster_render(in) ==
  LET none == [call |-> "done", ret |-> -1, fault |-> FALSE, x1 |-> Unset,
               y1 |-> Unset, x2 |-> Unset, y2 |-> Unset, draws |-> << >>,
               dropped |-> << >>, steps |-> << >>, over |-> FALSE,
               dirty |-> << >>]
      r == raster_tobuf(in)
      x2 == IF r.x2 > in.max_w THEN in.max_w ELSE r.x2
  IN  IF in.buf_sz < raster_hdr_sz THEN none
      ELSE [call |-> "done", ret |-> r.ret, fault |-> r.fault,
            x1 |-> r.x1, y1 |-> r.y1, x2 |-> r.x2, y2 |-> r.y2,
            draws |-> r.draws, dropped |-> r.dropped, steps |-> r.steps,
            over |-> r.over,
            dirty |-> IF r.ret = 1 THEN << <<r.x1, r.y1, x2, r.y2>> >>
                      ELSE << >>]

(***************************************************************************)
(* The buffers a client sends.  A line is given by its row, its first      *)
(* column, the attribute bytes of its cells, and by how much its header    *)
(* overstates their number.                                                *)
(***************************************************************************)
LineUnit(start_line, offset, ncells) == <<start_line, offset, ncells>>

\* the cell k of line n: its number in the foreground colour and codepoint
CellUnits(n, k, attr) == << <<10 * n + k, 0, 0>>, <<attr, 10 * n + k, 0>> >>

RECURSIVE PackCells(_, _, _)
PackCells(n, attrs, k) ==
  IF k > Len(attrs) THEN << >>
  ELSE CellUnits(n, k, attrs[k]) \o PackCells(n, attrs, k + 1)

RECURSIVE PackLines(_, _)
PackLines(content, n) ==
  IF n > Len(content) THEN << >>
  ELSE <<LineUnit(content[n].start_line, content[n].offset,
                  Len(content[n].attrs) + content[n].extra)>>
         \o PackCells(n, content[n].attrs, 1)
         \o PackLines(content, n + 1)

RECURSIVE CellCount(_, _)
CellCount(content, n) ==
  IF n > Len(content) THEN 0
  ELSE Len(content[n].attrs) + CellCount(content, n + 1)

SizeOf(lines, cells) ==
  lines * raster_line_sz + cells * raster_cell_sz + raster_hdr_sz

\* a buffer whose header agrees with its content, passed at its exact size
Packed(content, dirty, dst) ==
  [call |-> "render", cell_w |-> CellW, cell_h |-> CellH,
   max_w |-> dst[1], max_h |-> dst[2],
   dirty |-> dirty, lines |-> Len(content),
   cells |-> CellCount(content, 1),
   data_sz |-> SizeOf(Len(content), CellCount(content, 1)),
   words |-> PackLines(content, 1), tail |-> 0,
   beyond |-> <<0, 0, 0>>, fault |-> FALSE,
   buf_sz |-> SizeOf(Len(content), CellCount(content, 1))]

Attrs == {0, 2 ^ CATTR_SKIP}

AttrRuns == {<< >>} \cup {<<a>> : a \in Attrs}
              \cup {<<a, b>> : a \in Attrs, b \in Attrs}

LineShapes == [start_line : 0..MaxRow, offset : 0..MaxCol, attrs : AttrRuns,
               extra : {0}]

Contents == {<< >>} \cup {<<l>> : l \in LineShapes}
              \cup {<<l, m>> : l \in LineShapes, m \in LineShapes}

\* a grid of rows x cols cells without SKIP, one line per row
Grid(rows, cols) ==
  [r \in 1..rows |-> [start_line |-> r - 1, offset |-> 0,
                      attrs |-> [c \in 1..cols |-> 0], extra |-> 0]]

\* destinations: MaxCol x MaxRow cells exactly, and one pixel more each
\* way; a cell of column MaxCol or of row MaxRow reaches past both
DstSizes == {<<MaxCol * CellW, MaxRow * CellH>>,
             <<MaxCol * CellW + 1, MaxRow * CellH + 1>>}

WellFormedInputs ==
  {Packed(c, d, dst) : c \in Contents, d \in BOOLEAN, dst \in DstSizes}

\* grids, each on the destination it tiles and on one a pixel larger
GridInputs ==
  {Packed(Grid(rows, cols), d, <<cols * CellW + px, rows * CellH + px>>) :
     rows \in 1..(MaxRow + 1), cols \in 1..(MaxCol + 1), d \in BOOLEAN,
     px \in {0, 1}}

\* headers and sizes that disagree with the content: any declared counts
\* and size, a first line that overstates its cells, bytes after the data
MalformedBase ==
  {<<[start_line |-> 0, offset |-> 0, attrs |-> <<0>>, extra |-> e]>> \o rest :
     e \in {0, 1},
     rest \in {<< >>, <<[start_line |-> 1, offset |-> 0, attrs |-> << >>,
                        extra |-> 0]>>,
               <<[start_line |-> 1, offset |-> 1, attrs |-> <<0>>,
                  extra |-> 0]>>}}

MalformedInputs ==
  {[Packed(c, d, <<(MaxCol + 1) * CellW + 1, (MaxRow + 1) * CellH + 1>>)
      EXCEPT !.lines = l, !.cells = n, !.data_sz = SizeOf(l, n) + off,
             !.tail = t, !.buf_sz = @ + t, !.beyond = g[1], !.fault = g[2]] :
     c \in MalformedBase, d \in BOOLEAN, l \in 0..2, n \in 0..2,
     off \in {-1, 0, 1}, t \in {0, 3},
     g \in {<<<<0, 0, 0>>, FALSE>>, <<<<1, 0, 1>>, FALSE>>,
            <<<<0, 0, 0>>, TRUE>>}}

\* a buffer shorter than a header
ShortInputs ==
  {[Packed(<< >>, d, <<(MaxCol + 1) * CellW, (MaxRow + 1) * CellH>>)
      EXCEPT !.buf_sz = n, !.words = << >>] :
     d \in BOOLEAN, n \in {0, raster_hdr_sz - 1}}

\* lines of one cell each on a destination with room for every row and
\* column a line header can name
RoomyInputs ==
  {Packed(c, d, <<(MaxCol + 1) * CellW + 1, (MaxRow + 1) * CellH + 1>>) :
     c \in {<<l>> : l \in {m \in LineShapes : m.attrs = <<0>>}}
            \cup {<<l, m>> : l \in {n \in LineShapes : n.attrs = <<0>>},
                             m \in {n \in LineShapes : n.attrs = <<0>>}},
     d \in BOOLEAN}

RasterInputs ==
  WellFormedInputs \cup GridInputs \cup MalformedInputs \cup ShortInputs
    \cup RoomyInputs

RasterInit ==
  /\ ProducerInit
  /\ SegmentInit
  /\ ConsumerInit
  /\ v_waited = FALSE
  /\ a_waited = FALSE
  /\ vid_resize_unacked = FALSE
  /\ log = << >>
  /\ EventInit
  /\ raster_in \in RasterInputs
  /\ raster_out = NoRaster
  /\ CallbackIdle

\* one call of tui_raster_render on the buffer
RasterRender ==
  /\ raster_out.call = "none"
  /\ raster_in.call = "render"
  /\ raster_out' = tui_raster_render(raster_in)
  /\ UNCHANGED <<pc, ctxVars, runVars, shmVars, semVars, consVars, histVars,
                 evVars, raster_in, cbVars>>

RasterNext == RasterRender

RasterSpec == RasterInit /\ [][RasterNext]_vars

(***************************************************************************)
(* libretro_vidcb on one frame, lines 146-162: the loops over y and x,     *)
(* with buf counted in uint16_t elements from the start of data and dbuf   *)
(* as the sequence of pixels stored so far.                                *)
(***************************************************************************)
RECURSIVE VidcbRow(_, _, _, _)
VidcbRow(args, buf, x, dbuf) ==
  IF x >= args.width THEN dbuf
  ELSE VidcbRow(args, buf, x + 1,
                Append(dbuf, RGB1555toRGBA(args.data[buf + x + 1])))

RECURSIVE VidcbRows(_, _, _, _)
VidcbRows(args, buf, y, dbuf) ==
  IF y >= args.height THEN dbuf
  ELSE VidcbRows(args, buf + args.pitch \div 2, y + 1,
                 VidcbRow(args, buf, 0, dbuf))

VidcbConvert(args) == VidcbRows(args, 0, 0, << >>)

\* every value of a uint16_t
AllPixels == 0..65535

\* source pixels with one field set, with bit 15 set, and mixed ones
PixelSamples == <<0, 31, 992, 31744, 32768, 65535, 1057, 43690>>

\* the elements a frame of that geometry spans
FrameSpan(width, height, pitch) == (height - 1) * (pitch \div 2) + width

\* a frame whose elements run through PixelSamples from sample s on
PatternFrame(width, height, pitch, s) ==
  [call |-> "vidcb", width |-> width, height |-> height, pitch |-> pitch,
   data |-> [k \in 1..FrameSpan(width, height, pitch) |->
               PixelSamples[((k - 1 + s) % Len(PixelSamples)) + 1]]]

\* frames of one pixel with every 16-bit value, and frames of up to
\* MaxDim x MaxDim pixels with the rows packed, odd-pitched and padded
VidFrames ==
  {[call |-> "vidcb", width |-> 1, height |-> 1, pitch |-> 2,
    data |-> <<v>>] : v \in AllPixels}
    \cup {PatternFrame(f[1], f[2], 2 * f[1] + f[3], f[4]) :
            f \in (1..MaxDim) \X (1..MaxDim) \X (0..3)
                    \X (0..(Len(PixelSamples) - 1))}

\* everything but the callbacks is as at the start of the program
CallbackBase ==
  /\ ProducerInit
  /\ SegmentInit
  /\ ConsumerInit
  /\ v_waited = FALSE
  /\ a_waited = FALSE
  /\ vid_resize_unacked = FALSE
  /\ log = << >>
  /\ EventInit
  /\ RasterIdle

VidInit ==
  /\ CallbackBase
  /\ vid_args \in VidFrames
  /\ vid_dbuf = << >>
  /\ aud_args = NoCall
  /\ aud_batch = NoCall
  /\ aud_samples = NoCall
  /\ input_query = NoCall
  /\ input_answer = 0

\* the conversion loop of one libretro_vidcb call
VidcbLoop ==
  /\ vid_args.call = "vidcb"
  /\ vid_dbuf = << >>
  /\ vid_dbuf' = VidcbConvert(vid_args)
  /\ UNCHANGED <<pc, ctxVars, runVars, shmVars, semVars, consVars, histVars,
                 evVars, tuiVars, vid_args, aud_args, aud_batch, aud_samples,
                 input_query, input_answer>>

VidNext == VidcbLoop

VidSpec == VidInit /\ [][VidNext]_vars

(***************************************************************************)
(* The two audio entry points as functions of the accumulator: its slots,  *)
(* its cursor, and what was stored past the allocation (index and value).  *)
(***************************************************************************)
\* stereo frames pushed before the calls that are compared
MaxPrior == 13

\* the samples stored past the slots by a copy of data at index at
OobStores(at, data) ==
  {<<i, data[i - at + 1]>> : i \in OobIndices(at, Len(data))}

\* lines 169-171: one memcpy of nframes * 2 samples, then the cursor
AudcbOn(acc, data) ==
  [audbuf |-> WriteSamples(acc.audbuf, acc.used, data),
   used |-> WrapCursor(acc.used + (Len(data) \div 2) * 2),
   oob |-> acc.oob \cup OobStores(acc.used, data)]

\* lines 177-180: two stores, then the cursor
AudscbOn(acc, left, right) ==
  [audbuf |-> WriteSamples(WriteSamples(acc.audbuf, acc.used, <<left>>),
                           acc.used + 1, <<right>>),
   used |-> WrapCursor(acc.used + 1 + 1),
   oob |-> acc.oob \cup OobStores(acc.used, <<left>>)
                   \cup OobStores(acc.used + 1, <<right>>)]

\* libretro_audscb called for each frame of data in turn
RECURSIVE AudscbEach(_, _)
AudscbEach(acc, data) ==
  IF Len(data) < 2 THEN acc
  ELSE AudscbEach(AudscbOn(acc, data[1], data[2]),
                  SubSeq(data, 3, Len(data)))

\* the accumulator as allocated and filled (lines 351-355)
EmptyAccumulator ==
  [audbuf |-> [i \in 0..(audbuf_nsamples - 1) |-> AudbufFill],
   used |-> 0, oob |-> {}]

\* samples numbered from first on
Samples(first, n) == [k \in 1..n |-> first + k - 1]

\* an accumulator the program reaches: p frames pushed since it was empty;
\* then n more frames to append
AudInputs ==
  {[call |-> "audio",
    acc |-> AudscbEach(EmptyAccumulator, Samples(1, 2 * p)),
    data |-> Samples(2 * p + 1, 2 * n)] :
     p \in 0..MaxPrior, n \in 0..MaxBatch}

\* a call that stored past the allocation either goes on with the memory
\* there overwritten or was stopped by the fault
AudOutcomes(before, after) ==
  {[call |-> "done", audbuf |-> after.audbuf, used |-> after.used,
    oob |-> after.oob, crashed |-> c] :
     c \in IF after.oob = before.oob THEN {FALSE} ELSE BOOLEAN}

AudInit ==
  /\ CallbackBase
  /\ vid_args = NoCall
  /\ vid_dbuf = << >>
  /\ aud_args \in AudInputs
  /\ aud_batch = NoCall
  /\ aud_samples = NoCall
  /\ input_query = NoCall
  /\ input_answer = 0

\* the same frames given to libretro_audcb at once ...
AudPushBatch ==
  /\ aud_args.call = "audio"
  /\ aud_batch.call = "none"
  /\ aud_batch' \in AudOutcomes(aud_args.acc,
                                AudcbOn(aud_args.acc, aud_args.data))
  /\ UNCHANGED <<pc, ctxVars, runVars, shmVars, semVars, consVars, histVars,
                 evVars, tuiVars, vid_args, vid_dbuf, aud_args, aud_samples,
                 input_query, input_answer>>

\* ... and to libretro_audscb one by one
AudPushSamples ==
  /\ aud_args.call = "audio"
  /\ aud_samples.call = "none"
  /\ aud_samples' \in AudOutcomes(aud_args.acc,
                                  AudscbEach(aud_args.acc, aud_args.data))
  /\ UNCHANGED <<pc, ctxVars, runVars, shmVars, semVars, consVars, histVars,
                 evVars, tuiVars, vid_args, vid_dbuf, aud_args, aud_batch,
                 input_query, input_answer>>

AudNext == AudPushBatch \/ AudPushSamples

AudSpec == AudInit /\ [][AudNext]_vars

(***************************************************************************)
(* flush_eventq on one event: the ring holds a single event, drawn from    *)
(* the labels below, and the producer is at line 390 of an iteration.      *)
(***************************************************************************)
LabelEvents ==
  [category : {"IO"}, label : Labels, datatype : {"DIGITAL", "TRANSLATED"},
   active : BOOLEAN]
    \cup [category : {"SYSTEM"},
          label : {PlayerLabel(1, sUP), PlayerLabel(2, sBUTTON \o NumText(1))},
          datatype : {"NONE"}, active : BOOLEAN]

\* every button of the ports the handler reaches is held
JoypadHeld == [p \in 0..(MAX_PORTS - 1) |->
                [b \in 0..(MAX_BUTTONS - 1) |-> p < MAX_PORTS - 1]]

LabelInit ==
  /\ pc = "flush_eventq"
  /\ skipframe = FALSE
  /\ audbuf = [i \in 0..(audbuf_nsamples - 1) |-> AudbufFill]
  /\ audbuf_used = 0
  /\ audbuf_oob = {}
  /\ pushed = 0
  /\ run_frames = 0
  /\ vid_called = FALSE
  /\ frame = NoFrame
  /\ SegmentInit
  /\ ConsumerInit
  /\ v_waited = FALSE
  /\ a_waited = FALSE
  /\ vid_resize_unacked = FALSE
  /\ log = << >>
  /\ peer = "alive"
  /\ \E ev \in LabelEvents :
       /\ inevq = [buf |-> [i \in 0..(EvQueueSlots - 1) |->
                             IF i = 0 THEN ev ELSE NoEvent],
                   front |-> 0, back |-> 1]
       /\ enqueued = <<ev>>
  /\ joypad \in {JoypadClear, JoypadHeld}
  /\ joypad_oob = {}
  /\ polled = << >>
  /\ handled = << >>
  /\ io_ev = NoEvent
  /\ io_before = JoypadClear
  /\ RasterIdle
  /\ CallbackIdle

LabelNext == FlushEventqDispatch

LabelSpec == LabelInit /\ [][LabelNext]_vars

(***************************************************************************)
(* libretro_inputstate, lines 190-218, called by the core during run()     *)
(* after flush_eventq has emptied a ring of one or two events.             *)
(***************************************************************************)
\* the devices of libretro.h that the switch names, and one it does not
RETRO_DEVICE_JOYPAD == "JOYPAD"

Devices == {RETRO_DEVICE_JOYPAD, "MOUSE", "LIGHTGUN", "ANALOG"}

\* (int16_t) of a bool
BoolToInt(b) == IF b THEN 1 ELSE 0

\* line 199 reads the matrix at its third and fourth argument
InputStateOf(jp, port, dev, ind, id) ==
  IF dev = RETRO_DEVICE_JOYPAD THEN BoolToInt(jp[ind][id]) ELSE 0

\* the button ids asked for
QueryIds == {RETRO_DEVICE_ID_JOYPAD.UP, remaptbl[1]}

\* the rows of the matrix that ioev_ctxtbl stores to, lines 235 and 260
QueryPorts == 0..(MAX_PORTS - 2)

\* one call; the asserts of lines 194-195 hold for the arguments drawn
libretro_inputstate(port, dev, ind, id) ==
  /\ pc = "run"
  /\ ind < MAX_PORTS /\ id < MAX_BUTTONS
  /\ input_query' = [call |-> "inputstate", port |-> port, dev |-> dev,
                     ind |-> ind, id |-> id, matrix |-> joypad]
  /\ input_answer' = InputStateOf(joypad, port, dev, ind, id)
  /\ UNCHANGED <<pc, ctxVars, runVars, shmVars, semVars, consVars, histVars,
                 evVars, tuiVars, vid_args, vid_dbuf, aud_args, aud_batch,
                 aud_samples>>

\* the events in the ring: UP and BUTTON1 of the players the handler takes
InputEvents ==
  [category : {"IO"},
   label : {PlayerLabel(n, sub) : n \in 1..(MAX_PORTS - 1),
                                  sub \in {sUP, sBUTTON \o NumText(1)}},
   datatype : {"DIGITAL"}, active : BOOLEAN]

InputQueues == {<<e>> : e \in InputEvents}
                 \cup {<<e, f>> : e \in InputEvents, f \in InputEvents}

InputInit ==
  /\ pc = "flush_eventq"
  /\ skipframe = FALSE
  /\ audbuf = [i \in 0..(audbuf_nsamples - 1) |-> AudbufFill]
  /\ audbuf_used = 0
  /\ audbuf_oob = {}
  /\ pushed = 0
  /\ run_frames = 0
  /\ vid_called = FALSE
  /\ frame = NoFrame
  /\ SegmentInit
  /\ ConsumerInit
  /\ v_waited = FALSE
  /\ a_waited = FALSE
  /\ vid_resize_unacked = FALSE
  /\ log = << >>
  /\ peer = "alive"
  /\ \E q \in InputQueues :
       /\ inevq = [buf |-> [i \in 0..(EvQueueSlots - 1) |->
                             IF i < Len(q) THEN q[i + 1] ELSE NoEvent],
                   front |-> 0, back |-> Len(q)]
       /\ enqueued = q
  /\ joypad \in {JoypadClear, JoypadHeld}
  /\ joypad_oob = {}
  /\ polled = << >>
  /\ handled = << >>
  /\ io_ev = NoEvent
  /\ io_before = JoypadClear
  /\ RasterIdle
  /\ CallbackIdle

InputNext ==
  \/ FlushEventqDispatch
  \/ FlushEventq
  \/ \E port \in QueryPorts, dev \in Devices,
        ind \in QueryPorts, id \in QueryIds :
       libretro_inputstate(port, dev, ind, id)

InputSpec == InputInit /\ [][InputNext]_vars

(***************************************************************************)
(* Reading the log of an iteration.                                        *)
(***************************************************************************)
Count(e) == Cardinality({i \in DOMAIN log : log[i] = e})

\* position of the first e in the log, 0 when there is none
Pos(e) ==
  IF Count(e) = 0 THEN 0
  ELSE CHOOSE i \in DOMAIN log :
         /\ log[i] = e
         /\ \A j \in DOMAIN log : log[j] = e => i <= j

(***************************************************************************)
(* C1: the producer and the consumer are never inside the same channel     *)
(* buffer at the same time: the producer is not writing the framebuffer    *)
(* while the consumer reads it, and is not copying into the shared audio   *)
(* region while the consumer reads that.                                   *)
(***************************************************************************)
C1_NoConcurrentAccess ==
  /\ ~(pc = "vid_write" /\ cpc = "vread")
  /\ ~(pc = "a_flush" /\ cpc = "aread")

\* C1: both processes at work at once, on different channels
C1_Witness == pc = "a_flush" /\ cpc = "vread"

(***************************************************************************)
(* C2: every framebuffer write of the video callback and every copy into   *)
(* the shared audio region comes after a completed wait on the channel's   *)
(* semaphore that is later than the previous write to that buffer; the     *)
(* first frame is covered by the wait of line 362.                         *)
(***************************************************************************)
C2_WriteAfterWait ==
  /\ pc = "vid_write" => v_waited
  /\ pc = "a_flush" => a_waited

\* C2: the very first frame is about to be written, the framebuffer is blank
C2_Witness ==
  /\ pc = "vid_write"
  /\ fb.px = <<0, 0, 0, 0>>
  /\ v_waited

C3_IterationOrder ==
  pc = "v_wait" =>
    /\ Count("a_flush") = 1 /\ Count("aready") = 1 /\ Count("a_post") = 1
    /\ Pos("a_flush") < Pos("aready") /\ Pos("aready") < Pos("a_post")
    /\ Count("vready") = 1 /\ Count("v_post") = 0
    /\ Count("vid_write") = 1 => Pos("vid_write") < Pos("vready")

C4_StrictAlternation ==
  /\ pc \in {"vid_write", "set_vready"} => ~shared.vready
  /\ pc = "a_flush" => ~shared.aready

(***************************************************************************)
(* C5: a frame whose dimensions differ from the shared ones has the shared *)
(* w and h updated and resized raised before its first pixel is written    *)
(* and before vready is set: whenever a frame is being written, or is      *)
(* published, the shared dimensions are those of its layout, and resized   *)
(* is up unless the consumer is already bound to these dimensions.         *)
(***************************************************************************)
Layout == IF pc = "vid_write" THEN <<frame.w, frame.h>> ELSE <<fb.w, fb.h>>

C5_ResizedBeforePixels ==
  (pc = "vid_write" \/ shared.vready) =>
    /\ <<shared.w, shared.h>> = Layout
    /\ cons_dims # Layout => shared.resized

\* C5: the consumer finds a published frame of new dimensions, resized up
C5_Witness ==
  /\ shared.vready
  /\ vid_resize_unacked
  /\ shared.resized
  /\ <<fb.w, fb.h>> = <<shared.w, shared.h>>
  /\ cons_dims # <<fb.w, fb.h>>
  /\ cons_dims # <<0, 0>>

(***************************************************************************)
(* C6: once the video callback has changed the shared dimensions and       *)
(* raised resized, the producer writes no pixel until the consumer has     *)
(* cleared resized.                                                        *)
(***************************************************************************)
C6_NoPixelBeforeAck == pc = "vid_write" => ~vid_resize_unacked

(***************************************************************************)
(* C7: a call of the video callback with skipframe set writes no pixel,    *)
(* leaves the shared page alone and clears the flag, so the next call is   *)
(* not dropped; a call with the flag clear goes on to write its frame, and *)
(* the write stores the converted frame.                                   *)
(***************************************************************************)
C7_SkipExactlyOne ==
  [][/\ (pc = "vidcb" /\ pc' # "vidcb") =>
          IF skipframe
            THEN /\ pc' = "run"
                 /\ ~skipframe'
                 /\ fb' = fb
                 /\ shared' = shared
            ELSE /\ pc' \in {"vid_setw", "vid_write"}
                 /\ ~skipframe'
     /\ (pc = "vid_write" /\ pc' # "vid_write") =>
          /\ pc' = "run"
          /\ fb' = [w |-> frame.w, h |-> frame.h,
                    px |-> RGB1555toRGBA(frame.val)]
          /\ ~skipframe'
    ]_vars

\* C7: a frame was dropped in this run(), and the flag is clear again
C7_Witness ==
  /\ pc = "run"
  /\ Count("vid_skip") = 1
  /\ ~skipframe

(***************************************************************************)
(* C8: audbuf_used and the published abufused never exceed the capacity of *)
(* the audio buffer less one guard sample.                                 *)
(***************************************************************************)
C8_UsedBelowGuard ==
  /\ audbuf_used <= audbuf_nsamples - 1
  /\ shared.abufused <= 2 * (audbuf_nsamples - 1)

(***************************************************************************)
(* C9: every sample that push_batch and push_sample store lands at an      *)
(* index in [0, audbuf_nsamples).                                          *)
(***************************************************************************)
C9_StoresInsideBuffer == audbuf_oob = {}

(***************************************************************************)
(* C10: from an empty accumulator, while no more than capacity+1 samples   *)
(* (completed to a whole stereo frame) have been pushed, slot 0 holds the  *)
(* first sample pushed and the overflow is the one sample in the guard     *)
(* slot, the slot after the last data slot.                                *)
(***************************************************************************)
C10_GuardAbsorbsOne ==
  (pushed >= 1 /\ pushed <= audbuf_nsamples + 2) =>
    /\ audbuf[0] = 1
    /\ audbuf_oob \subseteq {audbuf_nsamples}

(***************************************************************************)
(* C11: the audio flush runs after the producer's wait on async has        *)
(* completed and before its post: inside that window it sets abufused to   *)
(* 2 * audbuf_used, copies that many bytes (audbuf_used samples) to the    *)
(* shared region, empties the accumulator and sets aready; the post comes  *)
(* last.                                                                   *)
(***************************************************************************)
C11_InWindow ==
  /\ pc = "a_flush" =>
       /\ a_waited
       /\ Count("a_wait") = 1 /\ Count("a_post") = 0
       /\ async = 0
  /\ pc = "a_post" =>
       /\ shared.aready
       /\ audbuf_used = 0
       /\ 2 * Len(abuf) = shared.abufused
       /\ Count("a_post") = 0
       /\ async = 0

C11_FlushStep ==
  (pc = "a_flush" /\ pc' # "a_flush") =>
    /\ pc' = "a_ready"
    /\ shared'.abufused = 2 * audbuf_used
    /\ Len(abuf') = audbuf_used
    /\ \A k \in 1..audbuf_used : abuf'[k] = audbuf[k - 1]
    /\ audbuf_used' = 0
    /\ async' = async

C11_PostStep ==
  (async' > async /\ pc' # pc) => (pc = "a_post" /\ shared.aready)

\* C11: the window, the flush and the post together
C11_FlushUnderSemaphore ==
  /\ []C11_InWindow
  /\ [][C11_FlushStep /\ C11_PostStep]_vars

\* C11: a flush of two samples has just been made, the post is still to come
C11_Witness ==
  /\ pc = "a_ready"
  /\ shared.abufused = 4
  /\ Len(abuf) = 2
  /\ audbuf_used = 0
  /\ async = 0

(***************************************************************************)
(* C12: for every player n in 1..MAX_PORTS and every button a the remap    *)
(* table covers, PLAYERn_BUTTONa sets joypad[n-1][remaptbl[a-1]] to the    *)
(* event's active value, and PLAYERn_UP/DOWN/LEFT/RIGHT/SELECT/START sets  *)
(* joypad[n-1][the joypad id of that name].                                *)
(***************************************************************************)
NamedIds ==
  {<<sUP, RETRO_DEVICE_ID_JOYPAD.UP>>, <<sDOWN, RETRO_DEVICE_ID_JOYPAD.DOWN>>,
   <<sLEFT, RETRO_DEVICE_ID_JOYPAD.LEFT>>,
   <<sRIGHT, RETRO_DEVICE_ID_JOYPAD.RIGHT>>,
   <<sSELECT, RETRO_DEVICE_ID_JOYPAD.SELECT>>,
   <<sSTART, RETRO_DEVICE_ID_JOYPAD.START>>}

\* the event taken last was the I/O event labelled PLAYERn_sub
TookLabel(n, sub) ==
  io_ev.category = "IO" /\ io_ev.label = PlayerLabel(n, sub)

MappedFor(ports) ==
  /\ \A n \in ports, a \in 1..Len(remaptbl) :
       TookLabel(n, sBUTTON \o NumText(a)) =>
         joypad[n - 1][remaptbl[a]] = io_ev.active
  /\ \A n \in ports, d \in NamedIds :
       TookLabel(n, d[1]) => joypad[n - 1][d[2]] = io_ev.active

\* C12: the mapping holds for every player 1..MAX_PORTS
C12_EveryPortMapped == MappedFor(1..MAX_PORTS)

\* the mapping as the handler makes it: players 1..MAX_PORTS-1
C12_PortsBelowMax == MappedFor(1..(MAX_PORTS - 1))

(***************************************************************************)
(* C13: an event whose label matches no recognized pattern, and any event  *)
(* that is not an I/O event, leaves the input matrix as it was.            *)
(***************************************************************************)
RecognizedSubtypes ==
  {sBUTTON \o NumText(a) : a \in 1..Len(remaptbl)}
    \cup {sAXIS \o NumText(k) : k \in 1..2}
    \cup {d[1] : d \in NamedIds}

Recognized(ev) ==
  /\ ev.category = "IO"
  /\ \E n \in 1..MAX_PORTS, sub \in RecognizedSubtypes :
       ev.label = PlayerLabel(n, sub)

\* C13: every event that is not recognized leaves joypad unchanged
C13_UnrecognizedIgnored ==
  (io_ev # NoEvent /\ ~Recognized(io_ev)) =>
    (joypad = io_before /\ joypad_oob = {})

\* the part of C13 that holds: events that are not I/O events, labels
\* without PLAYER, a player number outside the range, an unknown name
C13_ForeignIgnored ==
  (/\ io_ev # NoEvent
   /\ \/ io_ev.category # "IO"
      \/ sscanf(io_ev.label, sPLAYER).n # 1
      \/ sscanf(io_ev.label, sPLAYER).val \notin 1..MAX_PORTS
      \/ io_ev.label = PlayerLabel(1, sFROB))
    => joypad = io_before

(***************************************************************************)
(* C14: once the parent has terminated the main loop terminates: neither   *)
(* the poll in flush_eventq nor the waits on async and vsync hold the      *)
(* producer for ever.  A poll that times out while the parent lives does   *)
(* not end the loop.                                                       *)
(***************************************************************************)
C14_ExitOnlyOnPeerDeath == pc = "exited" => peer = "dead"

\* C14: termination after the death of the parent, and only then
C14_PeerDeathEndsLoop ==
  /\ (peer = "dead") ~> (pc = "exited")
  /\ []C14_ExitOnlyOnPeerDeath

\* C14: the loop has taken events, made a full turn, and ended on the death
\* of the parent
C14_Witness ==
  /\ pc = "exited"
  /\ peer = "dead"
  /\ Len(polled) >= 1
  /\ Count("a_post") = 1

(***************************************************************************)
(* C15: the events of the inbound ring reach flush_eventq in the order     *)
(* they were enqueued, each once, and the I/O events among them reach      *)
(* ioev_ctxtbl in that order; front never passes back.                     *)
(***************************************************************************)
IsIoEvent(ev) == ev.category = "IO"

\* C15: polled is a prefix of enqueued, handled its I/O events, and the
\* ring holds exactly the events not polled yet
C15_FifoDelivery ==
  /\ Len(polled) <= Len(enqueued)
  /\ polled = SubSeq(enqueued, 1, Len(polled))
  /\ handled = SelectSeq(polled, IsIoEvent)
  /\ (inevq.back - inevq.front + EvQueueSlots) % EvQueueSlots
       = Len(enqueued) - Len(polled)
  /\ \A k \in 1..(Len(enqueued) - Len(polled)) :
       inevq.buf[(inevq.front + k - 1) % EvQueueSlots]
         = enqueued[Len(polled) + k]

\* C15: as many events as the run allows were delivered, not all alike,
\* and the cursors have wrapped around the ring
C15_Witness ==
  /\ Len(polled) = MaxEvents
  /\ polled[1] # polled[2]
  /\ Len(handled) = 2
  /\ inevq.front = MaxEvents % EvQueueSlots
  /\ inevq.front = inevq.back

(***************************************************************************)
(* Claims about the cell raster decoder, checked under RasterSpec.         *)
(***************************************************************************)
Rendered == raster_out.call = "done"

\* the accounting of lines 783-788 agrees and the buffer holds data_sz bytes
SizedRight(in) ==
  /\ in.buf_sz >= raster_hdr_sz
  /\ in.data_sz = SizeOf(in.lines, in.cells)
  /\ in.buf_sz >= in.data_sz

\* C16: decoding succeeds exactly when the header's data_sz equals
\* lines * line_sz + cells * cell_sz + header_sz and the buffer passed in
\* holds at least data_sz bytes
C16_SuccessIffSized ==
  Rendered => (raster_out.ret = 1 <=> SizedRight(raster_in))

\* the direction that holds: a success was sized right
C16_SuccessOnlyIfSized ==
  Rendered /\ raster_out.ret = 1 => SizedRight(raster_in)

\* a buffer sized right is refused only after the decoder has read past it
C16_RefusalAfterOverRead ==
  Rendered /\ SizedRight(raster_in) /\ raster_out.ret # 1 => raster_out.over

\* nothing drawn and x1, y1, x2, y2 as they were before the call
Untouched ==
  /\ raster_out.draws = << >>
  /\ raster_out.x1 = Unset /\ raster_out.y1 = Unset
  /\ raster_out.x2 = Unset /\ raster_out.y2 = Unset

\* C17: on any error result no pixel of the destination is written, the
\* dirty-rectangle outputs are not modified and no dirty region is reported
C17_ErrorLeavesNoTrace ==
  Rendered /\ raster_out.ret = -1 => Untouched /\ raster_out.dirty = << >>

\* the part that holds for every error: no dirty region is reported
C17_NoDirtyOnError ==
  Rendered /\ raster_out.ret = -1 => raster_out.dirty = << >>

\* the part that holds for a buffer refused by its header (lines 774-788)
C17_RefusedUntouched ==
  Rendered /\ ~SizedRight(raster_in) => raster_out.ret = -1 /\ Untouched

\* the cells drawn by the call, and the bounds of their pixels
Glyphs == {k \in 1..Len(raster_out.draws) : raster_out.draws[k].op = "glyph"}

GlyphAt(k) == raster_out.draws[k]

SetMin(S) == CHOOSE v \in S : \A u \in S : v <= u

SetMax(S) == CHOOSE v \in S : \A u \in S : v >= u

\* a dirty frame decoded with success, within its buffer, some cell drawn
DirtyDrawn ==
  /\ Rendered /\ raster_out.ret = 1 /\ ~raster_out.over
  /\ raster_in.dirty
  /\ Glyphs # {}

\* C18: for a dirty frame the reported rectangle is exactly the smallest
\* one over the cells drawn: x1 = min(col) * cell_w, y1 = min(row) * cell_h,
\* x2 = (max(col) + 1) * cell_w, y2 = (max(row) + 1) * cell_h
C18_MinimalRect ==
  DirtyDrawn =>
    /\ raster_out.x1 = SetMin({GlyphAt(k).x : k \in Glyphs})
    /\ raster_out.y1 = SetMin({GlyphAt(k).y : k \in Glyphs})
    /\ raster_out.x2 = SetMax({GlyphAt(k).x : k \in Glyphs}) + raster_in.cell_w
    /\ raster_out.y2 = SetMax({GlyphAt(k).y : k \in Glyphs}) + raster_in.cell_h

\* what line 884 computes instead: draw_x was advanced at line 880, so the
\* right edge is one cell further, and it is dropped when that is past max_w
C18_RightEdgeAsComputed ==
  DirtyDrawn =>
    LET far == SetMax({GlyphAt(k).x : k \in Glyphs}) + 2 * raster_in.cell_w
    IN  \/ raster_out.x2 = far
        \/ far > raster_in.max_w /\ raster_out.x2 < far

\* the rows are as claimed when the frame is one line with a cell drawn
C18_RowsOfOneLine ==
  DirtyDrawn /\ raster_in.lines = 1 =>
    /\ raster_out.y1 = GlyphAt(SetMin(Glyphs)).y
    /\ raster_out.y2 = GlyphAt(SetMin(Glyphs)).y + raster_in.cell_h

\* every cell of the frame was discarded, each reaching past the destination
Exceeds(d) ==
  \/ d.x + raster_in.cell_w > raster_in.max_w
  \/ d.y + raster_in.cell_h > raster_in.max_h

DirtyDecoded ==
  /\ Rendered /\ raster_out.ret = 1 /\ ~raster_out.over
  /\ raster_in.dirty

OnlyExceeding ==
  /\ DirtyDecoded
  /\ Glyphs = {}
  /\ raster_out.dropped # << >>
  /\ Len(raster_out.dropped) = raster_in.cells
  /\ \A k \in 1..Len(raster_out.dropped) : Exceeds(raster_out.dropped[k])

\* two lines of one cell each: one drawn, the other reaching past the
\* destination in another row
OneDrawnOneExceeding ==
  /\ DirtyDecoded
  /\ raster_in.lines = 2 /\ raster_in.cells = 2
  /\ Cardinality(Glyphs) = 1
  /\ Len(raster_out.dropped) = 1
  /\ Exceeds(raster_out.dropped[1])
  /\ raster_out.dropped[1].y # GlyphAt(SetMin(Glyphs)).y

\* what a dirty frame without lines reports on the same destination
NothingDirty == tui_raster_render(Packed(<< >>, TRUE,
                                         <<raster_in.max_w, raster_in.max_h>>))

\* C19: a cell whose extent would exceed the destination is discarded: no
\* pixel is written for it and it contributes to none of x1, y1, x2, y2; a
\* dirty frame of only such cells reports what a frame without cells
\* reports, and beside a drawn cell the rows reported are the drawn cell's
C19_DiscardedContributeNothing ==
  /\ OnlyExceeding =>
       /\ raster_out.x1 = NothingDirty.x1 /\ raster_out.y1 = NothingDirty.y1
       /\ raster_out.x2 = NothingDirty.x2 /\ raster_out.y2 = NothingDirty.y2
  /\ OneDrawnOneExceeding =>
       /\ raster_out.y1 = GlyphAt(SetMin(Glyphs)).y
       /\ raster_out.y2 = GlyphAt(SetMin(Glyphs)).y + raster_in.cell_h

\* the part that holds: whatever is drawn lies within the destination, and
\* nothing is drawn where a cell was discarded
C19_NoPixelForDiscarded ==
  Rendered =>
    \A k \in Glyphs :
      /\ GlyphAt(k).x + GlyphAt(k).w <= raster_in.max_w
      /\ GlyphAt(k).y + GlyphAt(k).h <= raster_in.max_h
      /\ \A j \in 1..Len(raster_out.dropped) :
           raster_out.dropped[j].y = GlyphAt(k).y =>
             raster_out.dropped[j].x # GlyphAt(k).x

\* states of the two cases of C19
C19_OnlyExceedingSeen == OnlyExceeding

C19_OneDrawnOneExceedingSeen == OneDrawnOneExceeding

\* the full frame of a rows x cols grid on a destination px pixels larger
\* than the grid each way
GridFrame(rows, cols, px) ==
  Packed(Grid(rows, cols), FALSE, <<cols * CellW + px, rows * CellH + px>>)

\* the cell written for (row, col), as the decoder unpacks it
GridCell(row, col) ==
  unpack_cell(CellUnits(row + 1, col + 1, 0)[1],
              CellUnits(row + 1, col + 1, 0)[2])

\* the cell of (row, col) was drawn, once, at (col * cell_w, row * cell_h)
BlitAt(row, col) ==
  Cardinality({k \in Glyphs :
                 /\ GlyphAt(k).cell = GridCell(row, col)
                 /\ GlyphAt(k).x = col * raster_in.cell_w
                 /\ GlyphAt(k).y = row * raster_in.cell_h
                 /\ GlyphAt(k).w = raster_in.cell_w
                 /\ GlyphAt(k).h = raster_in.cell_h}) = 1

GridRange == (1..(MaxRow + 1)) \X (1..(MaxCol + 1))

\* C20: the full frame of a grid without SKIP that tiles the destination is
\* decoded to the per-cell blit of the whole grid, the cell of (row, col) at
\* (col * cell_w, row * cell_h), the last column and the last row included
C20_TilingGridDrawn ==
  \A g \in GridRange :
    Rendered /\ raster_in = GridFrame(g[1], g[2], 0) =>
      /\ raster_out.ret = 1
      /\ Cardinality(Glyphs) = g[1] * g[2]
      /\ \A row \in 0..(g[1] - 1), col \in 0..(g[2] - 1) : BlitAt(row, col)

\* what is drawn of a tiling grid: the cells outside its last column and
\* its last row, and no other (line 878 tests with <)
C20_TilingGridInnerDrawn ==
  \A g \in GridRange :
    Rendered /\ raster_in = GridFrame(g[1], g[2], 0) =>
      /\ raster_out.ret = 1
      /\ Cardinality(Glyphs) = (g[1] - 1) * (g[2] - 1)
      /\ \A row \in 0..(g[1] - 2), col \in 0..(g[2] - 2) : BlitAt(row, col)

\* the whole grid is drawn when the destination is a pixel larger
C20_GridDrawnWithMargin ==
  \A g \in GridRange :
    Rendered /\ raster_in = GridFrame(g[1], g[2], 1) =>
      /\ raster_out.ret = 1
      /\ Cardinality(Glyphs) = g[1] * g[2]
      /\ \A row \in 0..(g[1] - 1), col \in 0..(g[2] - 1) : BlitAt(row, col)

StepAt(k) == raster_out.steps[k]

SkipSteps == {k \in 1..Len(raster_out.steps) : StepAt(k).kind = "skip"}

\* the step after k is a cell of the same line
SameLineNext(k) ==
  /\ k < Len(raster_out.steps)
  /\ StepAt(k + 1).line = StepAt(k).line

\* C21: a cell with the SKIP attribute moves the draw position one cell
\* width to the right and writes no pixel: no drawing operation is made for
\* it, no later cell of its line is drawn over its area, and the next cell
\* of its line is handled one cell width further
C21_SkipAdvancesWithoutDrawing ==
  Rendered =>
    \A k \in SkipSteps :
      /\ StepAt(k).after = StepAt(k).before
      /\ \A j \in (k + 1)..Len(raster_out.steps) :
           StepAt(j).line = StepAt(k).line /\ StepAt(j).kind = "glyph" =>
             StepAt(j).x >= StepAt(k).x + raster_in.cell_w
      /\ SameLineNext(k) =>
           /\ StepAt(k + 1).x = StepAt(k).x + raster_in.cell_w
           /\ StepAt(k + 1).y = StepAt(k).y

\* C21: a skipped cell was followed by a cell drawn on the same line
C21_Witness ==
  /\ Rendered /\ raster_out.ret = 1
  /\ \E k \in SkipSteps :
       /\ SameLineNext(k)
       /\ StepAt(k + 1).kind = "glyph"
       /\ StepAt(k + 1).after = StepAt(k + 1).before + 1
       /\ raster_out.draws[StepAt(k + 1).after].x
            = StepAt(k).x + raster_in.cell_w

\* a full frame of two lines as written, the first at row a, the second at
\* row b, with at least one row between them
FirstRow == raster_in.words[1][1]

SecondRow == raster_in.words[2 + 2 * raster_in.words[1][3]][1]

FullFrameGap ==
  /\ Rendered /\ raster_out.ret = 1 /\ ~raster_out.over
  /\ ~raster_in.dirty
  /\ raster_in.lines = 2
  /\ Len(raster_in.words) = 2 + 2 * raster_in.cells
  /\ FirstRow + 1 < SecondRow

Boxes == {k \in 1..Len(raster_out.draws) : raster_out.draws[k].op = "box"}

\* the rectangle handed back is the whole frame
WholeFrame ==
  /\ raster_out.x1 = 0 /\ raster_out.y1 = 0
  /\ raster_out.x2 = raster_in.max_w /\ raster_out.y2 = raster_in.max_h

\* one box of width w over the rows between the two lines
GapBox(w) ==
  \E k \in Boxes :
    /\ raster_out.draws[k].x = 0
    /\ raster_out.draws[k].y = (FirstRow + 1) * raster_in.cell_h
    /\ raster_out.draws[k].w = w
    /\ raster_out.draws[k].h = (SecondRow - FirstRow - 1) * raster_in.cell_h

\* C22: in a full frame the rows between two consecutive lines a < b are
\* filled with the background colour across the full width of the
\* destination, and the rectangle handed back is the whole frame
C22_GapFilledFullWidth ==
  FullFrameGap => GapBox(raster_in.max_w) /\ WholeFrame

\* what line 837 fills: the rows a+1 .. b-1, one cell wide
C22_GapFilledOneCellWide ==
  FullFrameGap => GapBox(raster_in.cell_w) /\ Cardinality(Boxes) = 1

\* the rectangle of every full frame decoded is the whole frame
C22_FullFrameRect ==
  Rendered /\ raster_out.ret = 1 /\ ~raster_in.dirty => WholeFrame

C22_GapSeen == FullFrameGap

(***************************************************************************)
(* Claims about the callbacks taken on their own.                          *)
(***************************************************************************)
Converted == vid_args.call = "vidcb" /\ vid_dbuf # << >>

\* the source element and the stored pixel of (x, y)
SourceOf(x, y) == vid_args.data[y * (vid_args.pitch \div 2) + x + 1]

StoredAt(x, y) == vid_dbuf[y * vid_args.width + x + 1]

\* the five bits of a source pixel from bit lo on
Field(val, lo) == (val \div (2 ^ lo)) % 32

\* C23: every pixel stored has the alpha byte 0xff and red, green and blue
\* bytes equal to the 5-bit source fields shifted left by 3; it depends on
\* the low 15 bits of the source pixel only; and pixel (x, y) comes from
\* source element y * (pitch / 2) + x for all x < width, y < height
C23_PixelExpansion ==
  Converted =>
    /\ Len(vid_dbuf) = vid_args.width * vid_args.height
    /\ \A x \in 0..(vid_args.width - 1), y \in 0..(vid_args.height - 1) :
         /\ StoredAt(x, y)[1] = 255
         /\ StoredAt(x, y)[4] = Field(SourceOf(x, y), 10) * 8
         /\ StoredAt(x, y)[3] = Field(SourceOf(x, y), 5) * 8
         /\ StoredAt(x, y)[2] = Field(SourceOf(x, y), 0) * 8
         /\ \A c \in 2..4 : StoredAt(x, y)[c] % 8 = 0
         /\ StoredAt(x, y) = RGB1555toRGBA(SourceOf(x, y) % 32768)

\* C23: a frame of several rows with padding after each row and a pixel
\* with bit 15 set has been converted
C23_Witness ==
  /\ Converted
  /\ vid_args.height > 1 /\ vid_args.width > 1
  /\ vid_args.pitch \div 2 > vid_args.width
  /\ \E x \in 0..(vid_args.width - 1), y \in 1..(vid_args.height - 1) :
       /\ SourceOf(x, y) >= 32768
       /\ StoredAt(x, y) = <<255, 248, 248, 248>>

\* both entry points have been given the frames and both went on
BothPushed ==
  /\ aud_batch.call = "done" /\ aud_samples.call = "done"
  /\ ~aud_batch.crashed /\ ~aud_samples.crashed

\* C24: one libretro_audcb call with n frames leaves the accumulator in the
\* same state, cursor and slots, as n libretro_audscb calls with the same
\* frames, also when the cursor wraps
C24_EntryPointsEquivalent ==
  BothPushed =>
    /\ aud_batch.used = aud_samples.used
    /\ aud_batch.audbuf = aud_samples.audbuf

\* the cursors agree in every case
C24_SameCursor ==
  BothPushed => aud_batch.used = aud_samples.used

\* the slots agree as long as the cursor does not wrap before the last frame
C24_SameUntilWrap ==
  BothPushed /\ aud_args.acc.used + Len(aud_args.data) - 2 <= audbuf_nsamples
    => /\ aud_batch.audbuf = aud_samples.audbuf
       /\ aud_batch.oob = aud_samples.oob

\* where the header of the second line lies in a buffer of two lines
SecondHeader(in) == 2 + 2 * in.words[1][3]

\* a buffer of two lines whose header and line headers agree with it
TwoLines(in) ==
  /\ in.call = "render"
  /\ in.lines = 2 /\ in.tail = 0
  /\ in.buf_sz = in.data_sz /\ in.data_sz = SizeOf(in.lines, in.cells)
  /\ Len(in.words) = in.lines + 2 * in.cells
  /\ SecondHeader(in) <= Len(in.words)
  /\ in.words[1][3] + in.words[SecondHeader(in)][3] = in.cells

\* the columns a line header claims
ColumnsOf(line) == line[2]..(line[2] + line[3] - 1)

\* the two lines share no cell
DisjointLines(in) ==
  \/ in.words[1][1] # in.words[SecondHeader(in)][1]
  \/ ColumnsOf(in.words[1]) \cap ColumnsOf(in.words[SecondHeader(in)]) = {}

\* the same buffer with its two lines, each with its cells, exchanged
Exchanged(in) ==
  [in EXCEPT !.words = SubSeq(in.words, SecondHeader(in), Len(in.words))
                         \o SubSeq(in.words, 1, SecondHeader(in) - 1)]

\* the cells the buffer declares: row, column and content
DeclaredCells(in) ==
  {[row |-> in.words[1][1], col |-> in.words[1][2] + j,
    cell |-> unpack_cell(in.words[2 + 2 * j], in.words[3 + 2 * j])] :
     j \in 0..(in.words[1][3] - 1)}
    \cup
  {[row |-> in.words[SecondHeader(in)][1],
    col |-> in.words[SecondHeader(in)][2] + j,
    cell |-> unpack_cell(in.words[SecondHeader(in) + 1 + 2 * j],
                         in.words[SecondHeader(in) + 2 + 2 * j])] :
     j \in 0..(in.words[SecondHeader(in)][3] - 1)}

\* the cells a call drew, by origin and content
DrawnCells(out) ==
  {[x |-> out.draws[k].x, y |-> out.draws[k].y, cell |-> out.draws[k].cell] :
     k \in {j \in 1..Len(out.draws) : out.draws[j].op = "glyph"}}

DirtyTwoLines ==
  /\ Rendered /\ raster_in.dirty
  /\ TwoLines(raster_in) /\ DisjointLines(raster_in)

\* C25: for a dirty frame of lines over disjoint cells, the cells drawn,
\* each at ((offset + k) * cell_w, start_line * cell_h), and the dirty
\* rectangle are the same whatever the order of the lines and whatever the
\* rows left out between them
C25_LineOrderIrrelevant ==
  DirtyTwoLines =>
    LET other == tui_raster_render(Exchanged(raster_in))
    IN  /\ raster_out.ret = 1 /\ other.ret = 1
        /\ DrawnCells(raster_out) = DrawnCells(other)
        /\ raster_out.dirty = other.dirty
        /\ <<raster_out.x1, raster_out.y1, raster_out.x2, raster_out.y2>>
             = <<other.x1, other.y1, other.x2, other.y2>>
        /\ \A d \in DrawnCells(raster_out) :
             \E c \in DeclaredCells(raster_in) :
               /\ d.cell = c.cell
               /\ d.x = c.col * raster_in.cell_w
               /\ d.y = c.row * raster_in.cell_h

\* C25: a dirty frame whose second line lies above its first, a row left
\* out between them, with a cell of each drawn
C25_Witness ==
  /\ DirtyTwoLines
  /\ raster_in.words[1][1] > raster_in.words[SecondHeader(raster_in)][1] + 1
  /\ \E d \in DrawnCells(raster_out) :
       d.y = raster_in.words[1][1] * raster_in.cell_h
  /\ \E d \in DrawnCells(raster_out) :
       d.y = raster_in.words[SecondHeader(raster_in)][1] * raster_in.cell_h
  /\ raster_out.y1 = raster_in.words[SecondHeader(raster_in)][1]
                       * raster_in.cell_h

\* the unit reached from unit pos by following n line headers, each over
\* the cells it claims; -1 when that leaves the units written
RECURSIVE FollowLines(_, _, _)
FollowLines(words, pos, n) ==
  IF n = 0 THEN pos
  ELSE IF pos + 1 > Len(words) THEN -1
  ELSE IF pos + 1 + 2 * words[pos + 1][3] > Len(words) THEN -1
  ELSE FollowLines(words, pos + 1 + 2 * words[pos + 1][3], n - 1)

\* the header, the line headers and the buffer agree on what is there
CountsAgree(in) ==
  /\ SizedRight(in)
  /\ in.tail = 0 /\ in.buf_sz = in.data_sz
  /\ Len(in.words) = in.lines + 2 * in.cells
  /\ FollowLines(in.words, 0, in.lines) = Len(in.words)

\* C26: for every input the header check accepts, the decoder reads no byte
\* at or beyond the end of the caller's buffer, also when the buffer is
\* larger than data_sz or the lines claim more cells than the header
C26_NoReadBeyondBuffer ==
  Rendered /\ SizedRight(raster_in) => ~raster_out.over

\* the reads stay inside when the counts of the line headers are those of
\* the header and of the buffer
C26_InsideWhenCountsAgree ==
  Rendered /\ CountsAgree(raster_in) => ~raster_out.over /\ raster_out.ret = 1

\* an accepted buffer of exactly data_sz bytes was read beyond its end
C26_ExactBufferOverRead ==
  /\ Rendered /\ SizedRight(raster_in)
  /\ raster_in.buf_sz = raster_in.data_sz
  /\ raster_in.lines = 2 /\ raster_in.cells = 1
  /\ raster_out.over

\* C27: whenever raster_tobuf returns success the rectangle it hands back
\* is well-formed and inside the destination, x1 <= x2 <= max_w and
\* y1 <= y2 <= max_h, in full frames and in dirty frames, also when no cell
\* is drawn
C27_RectWellFormed ==
  Rendered /\ raster_out.ret = 1 /\ ~raster_out.over =>
    /\ raster_out.x1 <= raster_out.x2 /\ raster_out.x2 <= raster_in.max_w
    /\ raster_out.y1 <= raster_out.y2 /\ raster_out.y2 <= raster_in.max_h

\* a dirty frame without lines was decoded with success
C27_EmptyDirtyFrameSeen ==
  /\ Rendered /\ raster_out.ret = 1
  /\ raster_in.dirty /\ raster_in.lines = 0
  /\ raster_out.x1 = raster_in.max_w /\ raster_out.x2 = 0
  /\ raster_out.y1 = raster_in.max_h /\ raster_out.y2 = raster_in.cell_h

\* in a dirty frame x2 and y1 at least stay inside the destination
C27_DirtyPartlyInside ==
  Rendered /\ raster_out.ret = 1 /\ ~raster_out.over /\ raster_in.dirty =>
    /\ raster_out.x2 <= raster_in.max_w
    /\ raster_out.x1 <= raster_in.max_w
    /\ raster_out.y1 <= raster_in.max_h

(***************************************************************************)
(* Claims about the indices of the input matrix, checked under LabelSpec.  *)
(***************************************************************************)
\* what the handler made of the label of the event taken last
TargetTaken == LabelTargets[io_ev.label]

\* the event taken last made the handler store (line 259)
Stored == io_ev.category = "IO" /\ TargetTaken.button >= 0

\* C28: every store of ioev_ctxtbl into the input matrix has its port
\* index in [0, MAX_PORTS) and its button index in [0, MAX_BUTTONS): no
\* label makes it write outside joypad[MAX_PORTS][MAX_BUTTONS]
C28_StoresInsideMatrix ==
  Stored =>
    /\ TargetTaken.port \in 0..(MAX_PORTS - 1)
    /\ TargetTaken.button \in 0..(MAX_BUTTONS - 1)
    /\ joypad_oob = {}

\* the port index is always in range
C28_PortInRange ==
  Stored => TargetTaken.port \in 0..(MAX_PORTS - 2)

\* only a BUTTONa label with a beyond the remapped ones leaves the row
C28_OnlyButtonNumbersEscape ==
  Stored /\ TargetTaken.button >= MAX_BUTTONS =>
    \E a \in (MAX_BUTTONS - 5)..(MAX_PORTS * MAX_BUTTONS) :
      /\ SubSeq(io_ev.label, strchr(io_ev.label, "_") + 1, Len(io_ev.label))
           = sBUTTON \o NumText(a)
      /\ TargetTaken.button = a

\* a store landed after the last element of the matrix
C28_StoreBeyondMatrixSeen ==
  /\ Stored
  /\ \E at \in joypad_oob : at >= MAX_PORTS * MAX_BUTTONS
  /\ joypad = io_before

(***************************************************************************)
(* Claims about libretro_inputstate, checked under InputSpec.              *)
(***************************************************************************)
Asked == input_query.call = "inputstate"

\* the port and button an event of the ring is stored at
TargetOf(ev) == LabelTargets[ev.label]

\* the event k of those handled is the last one stored at its port and
\* button
LastFor(k) ==
  \A j \in (k + 1)..Len(handled) : TargetOf(handled[j]) # TargetOf(handled[k])

\* C29: once flush_eventq has processed an I/O event of player n that sets
\* a joypad button to v, libretro_inputstate asked for port n-1, device
\* JOYPAD and that button returns v until a later event changes it; for any
\* other device it returns 0, and the matrix is left as it was
C29_StateReadsBack ==
  Asked =>
    /\ \A k \in 1..Len(handled) :
         (/\ LastFor(k)
          /\ input_query.dev = RETRO_DEVICE_JOYPAD
          /\ input_query.port = TargetOf(handled[k]).port
          /\ input_query.id = TargetOf(handled[k]).button)
           => input_answer = BoolToInt(handled[k].active)
    /\ input_query.dev # RETRO_DEVICE_JOYPAD => input_answer = 0
    /\ joypad = input_query.matrix

\* what holds: the value read back is that of the row named by the third
\* argument, the index
C29_ReadsBackByIndex ==
  Asked =>
    /\ \A k \in 1..Len(handled) :
         (/\ LastFor(k)
          /\ input_query.dev = RETRO_DEVICE_JOYPAD
          /\ input_query.ind = TargetOf(handled[k]).port
          /\ input_query.id = TargetOf(handled[k]).button)
           => input_answer = BoolToInt(handled[k].active)
    /\ input_query.dev # RETRO_DEVICE_JOYPAD => input_answer = 0
    /\ joypad = input_query.matrix

\* the core asked for the port of the player whose button was set, at
\* index 0, and got the value of the first row instead
C29_WrongRowSeen ==
  /\ Asked /\ Len(handled) = 1
  /\ handled[1].active
  /\ input_query.dev = RETRO_DEVICE_JOYPAD
  /\ input_query.port = TargetOf(handled[1]).port /\ input_query.port = 1
  /\ input_query.ind = 0
  /\ input_query.id = TargetOf(handled[1]).button
  /\ input_answer = 0

(***************************************************************************)
(* The producer's side of the two ready flags, lines 387-413.              *)
(***************************************************************************)
\* the positions of an iteration before line 399 and after it
BeforeVready ==
  {"run", "vidcb", "vid_setw", "vid_seth", "vid_setres", "vid_write",
   "frameskip", "set_vready"}

AfterVready == {"a_wait", "a_flush", "a_ready", "a_post", "v_wait"}

\* C30: in every iteration of the main loop the producer sets vready to
\* true once, after run() has returned and before the audio flush, whether
\* the video callback copied a frame in that run(), dropped it for
\* skipframe or was not called at all; and no step of the producer takes
\* vready or aready from true to false: only the consumer's release of the
\* channel does
C30_VreadyEveryIteration ==
  /\ [](/\ pc \in BeforeVready => Count("vready") = 0
        /\ pc \in AfterVready =>
             /\ Count("vready") = 1
             /\ Count("a_flush") = 1 => Pos("vready") < Pos("a_flush")
             /\ Count("vid_write") = 1 => Pos("vid_write") < Pos("vready")
             /\ Count("vid_skip") = 1 => Pos("vid_skip") < Pos("vready"))
  /\ [][/\ (shared.vready /\ ~shared'.vready) => ConsumerVideoEnd
        /\ (shared.aready /\ ~shared'.aready) => ConsumerAudioEnd]_vars

\* the frame of this run() was dropped for skipframe, vready was set all
\* the same and the audio flush is about to start
C30_Witness ==
  /\ pc = "a_flush"
  /\ Count("vid_skip") = 1 /\ Count("vid_write") = 0
  /\ Count("vready") = 1

\* the same with the video callback not called during run()
C30_NoCallbackSeen ==
  /\ pc = "a_flush"
  /\ Count("vid_skip") = 0 /\ Count("vid_write") = 0
  /\ Count("vready") = 1

====
